---------------------------- MODULE Spec2Model ----------------------------
(***************************************************************************)
(* Model of the spec-forge core: the OpenAPI parser                        *)
(* (src/src/parser/openapi-parser.ts) and the extension handlers           *)
(* (src/src/extensions/permission-flags.ts).                               *)
(*                                                                         *)
(* JavaScript values are tagged records.  Strings that the code inspects   *)
(* character by character (the openapi version) are sequences of           *)
(* one-character strings; error messages are sequences of message pieces.  *)
(* Objects live in a heap: the parser stores a reference to the object it  *)
(* was given, and the caller of parseObject keeps its own reference.       *)
(***************************************************************************)
EXTENDS Integers, Sequences, FiniteSets, TLC

VARIABLES
    heap,      \* object reference -> contents of the object (or Unalloc)
    spec,      \* OpenAPIParser.spec: NullRef or the reference of the stored document
    last,      \* the last event: an API call with its outcome, or a caller step
    lastOk,    \* history: reference returned by the most recent successful parse call
    aop,       \* the operation value the extension handlers are applied to
    acall,     \* the last extension-handler call with its input and result
    hheap,     \* the objects and arrays of operations, for the handlers seen as code on references
    hcall,     \* the last handler call on references, with the heap before it
    rview,     \* the SchemaViewer descent in progress
    ui,        \* the file uploader and the document context it writes
    parsers    \* the stored document of each of two more parser instances

vars == <<heap, spec, last, lastOk, aop, acall, hheap, hcall, rview, ui, parsers>>

(***************************************************************************)
(* Bounds                                                                  *)
(***************************************************************************)
MaxObjs == 2       \* objects the caller and JSON.parse may allocate
MaxPaths == 2      \* path entries of a document in the operation-list specification
MaxOps == 3        \* operations of a document in that specification
MaxAliases == 2    \* length of an alias list

Refs == 1..MaxObjs
NullRef == 0       \* JavaScript null, as a reference

(***************************************************************************)
(* JavaScript values                                                       *)
(***************************************************************************)
Undefined == [t |-> "undefined", s |-> <<>>, n |-> 0]
Null == [t |-> "null", s |-> <<>>, n |-> 0]
Str(chars) == [t |-> "string", s |-> chars, n |-> 0]
Num(k) == [t |-> "number", s |-> <<>>, n |-> k]

\* ToBoolean of a scalar: undefined, null, "" and 0 are falsy
Truthy(v) ==
    CASE v.t = "undefined" -> FALSE
      [] v.t = "null" -> FALSE
      [] v.t = "string" -> v.s # <<>>
      [] v.t = "number" -> v.n # 0
      [] OTHER -> TRUE

\* String.prototype.startsWith
startsWith(chars, prefix) ==
    /\ Len(chars) >= Len(prefix)
    /\ SubSeq(chars, 1, Len(prefix)) = prefix

V300 == <<"3", ".", "0", ".", "0">>
V310 == <<"3", ".", "1", ".", "0">>
V20 == <<"2", ".", "0">>
V30 == <<"3", "0">>
TitleChars == <<"A", "P", "I">>
VersionChars == <<"1">>

(***************************************************************************)
(* Documents.  info and paths are nested objects; t = "undefined" is an    *)
(* absent field.                                                           *)
(***************************************************************************)
InfoAbsent == [t |-> "undefined", title |-> Undefined, version |-> Undefined]
InfoNull == [t |-> "null", title |-> Undefined, version |-> Undefined]
InfoObj(title, version) == [t |-> "object", title |-> title, version |-> version]
InfoFull == InfoObj(Str(TitleChars), Str(VersionChars))

PathsAbsent == [t |-> "undefined", entries |-> <<>>]
PathsObj(entries) == [t |-> "object", entries |-> entries]

\* the verbs in the order the schema viewer lists them
methods_ViewerOrder == <<"get", "post", "put", "delete", "patch", "options", "head", "trace">>

methods == <<"get", "put", "post", "delete", "options", "head", "patch", "trace">>
Verbs == {methods[i] : i \in 1..Len(methods)}
OtherKeys == {"summary", "parameters"}
ItemKeys == Verbs \cup OtherKeys

\* values of the keys of a path item
NoValue == [t |-> "undefined", id |-> 0]
NullValue == [t |-> "null", id |-> 0]
StringValue == [t |-> "string", id |-> 0]
ArrayValue == [t |-> "array", id |-> 0]
OperationObj(id) == [t |-> "object", id |-> id]

\* typeof v === 'object' (true of null and of arrays as well)
TypeofObject(v) == v.t \in {"object", "array", "null"}
\* ToBoolean of a path item value
TruthyValue(v) == v.t \notin {"undefined", "null"}

\* the path item { summary, parameters: [], <verb>: operation, ... } whose
\* operations are numbered after the position of the path and of the verb
VerbIndex(verb) == CHOOSE i \in 1..Len(methods) : methods[i] = verb
Item(pos, present) ==
    [k \in ItemKeys |->
        IF k \in present THEN OperationObj(10 * pos + VerbIndex(k))
        ELSE IF k = "summary" THEN StringValue
        ELSE IF k = "parameters" THEN ArrayValue
        ELSE NoValue]
PathsUsers == PathsObj(<<[key |-> "/users", item |-> Item(1, {"get"})]>>)

Candidate(openapi, info, paths) ==
    [t |-> "object", openapi |-> openapi, info |-> info, paths |-> paths]
NullCandidate == [t |-> "null", openapi |-> Undefined, info |-> InfoAbsent, paths |-> PathsAbsent]
Unalloc == [t |-> "unalloc", openapi |-> Undefined, info |-> InfoAbsent, paths |-> PathsAbsent]

\* the object a reference denotes
Deref(h, r) == IF r = NullRef THEN NullCandidate ELSE h[r]

(***************************************************************************)
(* Errors and outcomes                                                     *)
(***************************************************************************)
NoError == [thrown |-> FALSE, name |-> "", message |-> <<>>]
NewError(message) == [thrown |-> TRUE, name |-> "Error", message |-> message]
TypeError(message) == [thrown |-> TRUE, name |-> "TypeError", message |-> message]
SyntaxError(message) == [thrown |-> TRUE, name |-> "SyntaxError", message |-> message]

MissingField == "Missing required field: "
Unsupported == "Unsupported OpenAPI version: "
Only3x == ". Only 3.x is supported."
FailedToParse == "Failed to parse OpenAPI spec: "
NoSpecLoaded == "No spec loaded. Call parse() first."

\* String.prototype.includes for one message piece
includes(message, piece) == \E i \in 1..Len(message) : message[i] = piece


(***************************************************************************)
(* OpenAPIParser                                                           *)
(***************************************************************************)
\* validateSpec with the info.version check placed before the info.title check
validateSpec_VersionFirst(c) ==
    IF c.t = "null"
    THEN TypeError(<<"Cannot read properties of null (reading 'openapi')">>)
    ELSE IF ~Truthy(c.openapi)
    THEN NewError(<<MissingField, "openapi">>)
    ELSE IF c.openapi.t # "string"
    THEN TypeError(<<"spec.openapi.startsWith is not a function">>)
    ELSE IF ~startsWith(c.openapi.s, <<"3", ".">>)
    THEN NewError(<<Unsupported>> \o c.openapi.s \o <<Only3x>>)
    ELSE IF c.info.t # "object"
    THEN NewError(<<MissingField, "info">>)
    ELSE IF ~Truthy(c.info.version)
    THEN NewError(<<MissingField, "info.version">>)
    ELSE IF ~Truthy(c.info.title)
    THEN NewError(<<MissingField, "info.title">>)
    ELSE IF c.paths.t # "object"
    THEN NewError(<<MissingField, "paths">>)
    ELSE NoError

\* validateSpec(spec): the error it throws, or NoError.  Reading a property
\* of null and calling startsWith on a value that is not a string throw a
\* TypeError before any check can report.
validateSpec(c) ==
    IF c.t = "null"
    THEN TypeError(<<"Cannot read properties of null (reading 'openapi')">>)
    ELSE IF ~Truthy(c.openapi)
    THEN NewError(<<MissingField, "openapi">>)
    ELSE IF c.openapi.t # "string"
    THEN TypeError(<<"spec.openapi.startsWith is not a function">>)
    ELSE IF ~startsWith(c.openapi.s, <<"3", ".">>)
    THEN NewError(<<Unsupported>> \o c.openapi.s \o <<Only3x>>)
    ELSE IF c.info.t # "object"
    THEN NewError(<<MissingField, "info">>)
    ELSE IF ~Truthy(c.info.title)
    THEN NewError(<<MissingField, "info.title">>)
    ELSE IF ~Truthy(c.info.version)
    THEN NewError(<<MissingField, "info.version">>)
    ELSE IF c.paths.t # "object"
    THEN NewError(<<MissingField, "paths">>)
    ELSE NoError

\* parseObject storing the candidate before validating it
parseObject_StoreFirst(s, h, r) ==
    LET e == validateSpec(Deref(h, r))
    IN  IF e.thrown
        THEN [spec |-> r, err |-> e, ret |-> NullRef]
        ELSE [spec |-> r, err |-> NoError, ret |-> r]

\* parseObject keeping a document that is already loaded
parseObject_KeepLoaded(s, h, r) ==
    LET e == validateSpec(Deref(h, r))
        kept == IF s # NullRef THEN s ELSE r
    IN  IF e.thrown
        THEN [spec |-> s, err |-> e, ret |-> NullRef]
        ELSE [spec |-> kept, err |-> NoError, ret |-> kept]

\* parseObject(specObject) on a parser whose field is s: the new value of
\* the field and what the call throws or returns
parseObject(s, h, r) ==
    LET e == validateSpec(Deref(h, r))
    IN  IF e.thrown
        THEN [spec |-> s, err |-> e, ret |-> NullRef]
        ELSE [spec |-> r, err |-> NoError, ret |-> r]

\* Raw texts given to parse, with what JSON.parse makes of them
DocA == Candidate(Str(V300), InfoFull, PathsUsers)
DocB == Candidate(Str(V310), InfoFull, PathsUsers)
DocV2 == Candidate(Str(V20), InfoFull, PathsUsers)
DocNumeric == Candidate(Num(3), InfoFull, PathsUsers)

TextA == "{\"openapi\":\"3.0.0\",\"info\":{\"title\":\"API\",\"version\":\"1\"},\"paths\":{\"/users\":{\"summary\":\"s\",\"parameters\":[],\"get\":{\"responses\":{}}}}}"
TextB == "{\"openapi\":\"3.1.0\",\"info\":{\"title\":\"API\",\"version\":\"1\"},\"paths\":{\"/users\":{\"summary\":\"s\",\"parameters\":[],\"get\":{\"responses\":{}}}}}"
TextV2 == "{\"openapi\":\"2.0\",\"info\":{\"title\":\"API\",\"version\":\"1\"},\"paths\":{\"/users\":{\"summary\":\"s\",\"parameters\":[],\"get\":{\"responses\":{}}}}}"
TextNumeric == "{\"openapi\":3,\"info\":{\"title\":\"API\",\"version\":\"1\"},\"paths\":{\"/users\":{\"summary\":\"s\",\"parameters\":[],\"get\":{\"responses\":{}}}}}"
TextNull == "null"
TextTruncated == "{\"openapi\":"
Texts == {TextA, TextB, TextV2, TextNumeric, TextNull, TextTruncated}

WellFormed(text) == text # TextTruncated

\* JSON.parse(text): the structure, or the SyntaxError it throws
JSONparse(text) ==
    CASE text = TextA -> [err |-> NoError, value |-> DocA]
      [] text = TextB -> [err |-> NoError, value |-> DocB]
      [] text = TextV2 -> [err |-> NoError, value |-> DocV2]
      [] text = TextNumeric -> [err |-> NoError, value |-> DocNumeric]
      [] text = TextNull -> [err |-> NoError, value |-> NullCandidate]
      [] OTHER ->
            [err |-> SyntaxError(<<"Unexpected end of JSON input">>), value |-> NullCandidate]

\* parse(specString): JSON.parse and parseObject run inside one try block
\* whose catch rethrows whatever was thrown as a new Error with the prefix.
\* fresh is the reference of the object JSON.parse allocates.
parse(s, h, text, fresh) ==
    LET j == JSONparse(text)
        r == IF j.value.t = "null" THEN NullRef ELSE fresh
        h2 == IF j.err.thrown \/ r = NullRef THEN h ELSE [h EXCEPT ![fresh] = j.value]
        p == IF j.err.thrown
             THEN [spec |-> s, err |-> j.err, ret |-> NullRef]
             ELSE parseObject(s, h2, r)
    IN  IF p.err.thrown
        THEN [spec |-> p.spec,
              \* the deserialized object is garbage unless the parser kept it
              heap |-> IF p.spec = s THEN h ELSE h2,
              ret |-> NullRef,
              err |-> NewError(<<FailedToParse>> \o p.err.message)]
        ELSE [spec |-> p.spec, heap |-> h2, ret |-> p.ret, err |-> NoError]

getSpec(s) == s

\* getPaths treating a stored document without paths as no document
getPaths_NeedsPaths(s, h) ==
    IF s = NullRef \/ h[s].paths.t # "object"
    THEN [err |-> NewError(<<NoSpecLoaded>>), val |-> PathsAbsent]
    ELSE [err |-> NoError, val |-> h[s].paths]

getPaths(s, h) ==
    IF s = NullRef
    THEN [err |-> NewError(<<NoSpecLoaded>>), val |-> PathsAbsent]
    ELSE [err |-> NoError, val |-> h[s].paths]

getInfo(s, h) ==
    IF s = NullRef
    THEN [err |-> NewError(<<NoSpecLoaded>>), val |-> InfoAbsent]
    ELSE [err |-> NoError, val |-> h[s].info]

getVersion(s, h) ==
    IF s = NullRef
    THEN [err |-> NewError(<<NoSpecLoaded>>), val |-> Undefined]
    ELSE [err |-> NoError, val |-> h[s].openapi]

\* paths[path]: the item stored under the key, or undefined
Lookup(entries, path) ==
    IF \E i \in 1..Len(entries) : entries[i].key = path
    THEN [found |-> TRUE,
          item |-> entries[CHOOSE i \in 1..Len(entries) : entries[i].key = path].item]
    ELSE [found |-> FALSE, item |-> [k \in ItemKeys |-> NoValue]]

getPath(s, h, path) ==
    LET p == getPaths(s, h)
    IN  IF p.err.thrown
        THEN [err |-> p.err, val |-> Lookup(<<>>, path)]
        ELSE IF p.val.t # "object"
        THEN [err |-> TypeError(<<"Cannot read properties of undefined">>),
              val |-> Lookup(<<>>, path)]
        ELSE [err |-> NoError, val |-> Lookup(p.val.entries, path)]

\* the inner loop running over the parameters key as well
RECURSIVE MethodLoop_AllKeys(_, _, _)
MethodLoop_AllKeys(path, pathItem, i) ==
    LET keys == methods \o <<"parameters">>
    IN  IF i > Len(keys)
        THEN <<>>
        ELSE LET method == keys[i]
                 operation == pathItem[method]
             IN  (IF TruthyValue(operation) /\ TypeofObject(operation)
                  THEN <<[path |-> path, method |-> method, operation |-> operation]>>
                  ELSE <<>>)
                 \o MethodLoop_AllKeys(path, pathItem, i + 1)

\* the inner loop of getAllOperations: the verbs from position i on
RECURSIVE MethodLoop(_, _, _)
MethodLoop(path, pathItem, i) ==
    IF i > Len(methods)
    THEN <<>>
    ELSE LET method == methods[i]
             operation == pathItem[method]
         IN  (IF TruthyValue(operation) /\ TypeofObject(operation)
              THEN <<[path |-> path, method |-> method, operation |-> operation]>>
              ELSE <<>>)
             \o MethodLoop(path, pathItem, i + 1)

\* the outer loop of getAllOperations over Object.entries(paths)
RECURSIVE PathLoop(_, _)
PathLoop(entries, i) ==
    IF i > Len(entries)
    THEN <<>>
    ELSE MethodLoop(entries[i].key, entries[i].item, 1) \o PathLoop(entries, i + 1)

getAllOperations(s, h) ==
    LET p == getPaths(s, h)
    IN  IF p.err.thrown
        THEN [err |-> p.err, val |-> <<>>]
        ELSE IF p.val.t # "object"
        THEN [err |-> TypeError(<<"Cannot convert undefined or null to object">>),
              val |-> <<>>]
        ELSE [err |-> NoError, val |-> PathLoop(p.val.entries, 1)]


(***************************************************************************)
(* Events and actions of the parser                                        *)
(***************************************************************************)
\* before is the parser's field when the call started
Event(op, ref, text, cand, err, ret, val, before) ==
    [op |-> op, ref |-> ref, text |-> text, cand |-> cand, err |-> err,
     ret |-> ret, val |-> val, before |-> before]
NoEvent == Event("none", NullRef, "", NullCandidate, NoError, NullRef, <<>>, NullRef)

Allocated(h) == {r \in Refs : h[r].t = "object"}
Free(h) == {r \in Refs : h[r].t = "unalloc"}
FirstFree(h) == CHOOSE r \in Free(h) : \A q \in Free(h) : r <= q

\* field values the caller writes in the parser specification
SmallOpenapis == {Undefined, Str(V300), Str(V310)}
SmallInfos == {InfoAbsent, InfoFull}
SmallPaths == {PathsAbsent, PathsUsers}
SmallCandidates ==
    {Candidate(o, i, p) : o \in SmallOpenapis, i \in SmallInfos, p \in SmallPaths}

\* the caller builds an object
NewObject(c) ==
    /\ Free(heap) # {}
    /\ heap' = [heap EXCEPT ![FirstFree(heap)] = c]
    /\ last' = Event("new", FirstFree(heap), "", c, NoError, NullRef, <<>>, NullRef)
    /\ UNCHANGED <<spec, lastOk, aop, acall, hheap, hcall, rview, ui, parsers>>

\* the caller writes a field of an object it holds (a reference it passed to
\* parseObject, or the document parse or getSpec returned)
CallerWrite(r, field, v) ==
    /\ r \in Allocated(heap)
    /\ heap[r][field] # v
    /\ heap' = [heap EXCEPT ![r][field] = v]
    /\ last' = Event("write", r, field, heap'[r], NoError, NullRef, <<>>, NullRef)
    /\ UNCHANGED <<spec, lastOk, aop, acall, hheap, hcall, rview, ui, parsers>>

ParseObject(r) ==
    /\ r \in Allocated(heap) \cup {NullRef}
    /\ LET p == parseObject(spec, heap, r)
       IN  /\ spec' = p.spec
           /\ last' = Event("parseObject", r, "", Deref(heap, r), p.err, p.ret, <<>>, spec)
           /\ lastOk' = IF p.err.thrown THEN lastOk ELSE p.ret
    /\ UNCHANGED <<heap, aop, acall, hheap, hcall, rview, ui, parsers>>

Parse(text) ==
    LET j == JSONparse(text)
        needsObject == ~j.err.thrown /\ j.value.t = "object"
    IN  /\ needsObject => Free(heap) # {}
        /\ LET fresh == IF needsObject THEN FirstFree(heap) ELSE NullRef
               p == parse(spec, heap, text, fresh)
           IN  /\ spec' = p.spec
               /\ heap' = p.heap
               /\ last' = Event("parse", fresh, text, j.value, p.err, p.ret, <<>>, spec)
               /\ lastOk' = IF p.err.thrown THEN lastOk ELSE p.ret
        /\ UNCHANGED <<aop, acall, hheap, hcall, rview, ui, parsers>>

GetSpec ==
    /\ last' = Event("getSpec", NullRef, "", NullCandidate, NoError, getSpec(spec), <<>>, spec)
    /\ UNCHANGED <<heap, spec, lastOk, aop, acall, hheap, hcall, rview, ui, parsers>>

GetPaths ==
    /\ LET g == getPaths(spec, heap)
       IN  last' = Event("getPaths", NullRef, "", NullCandidate, g.err, NullRef, g.val, spec)
    /\ UNCHANGED <<heap, spec, lastOk, aop, acall, hheap, hcall, rview, ui, parsers>>

GetPath(path) ==
    /\ LET g == getPath(spec, heap, path)
       IN  last' = Event("getPath", NullRef, path, NullCandidate, g.err, NullRef, g.val, spec)
    /\ UNCHANGED <<heap, spec, lastOk, aop, acall, hheap, hcall, rview, ui, parsers>>

GetAllOperations ==
    /\ LET g == getAllOperations(spec, heap)
       IN  last' = Event("getAllOperations", NullRef, "", NullCandidate, g.err, NullRef, g.val, spec)
    /\ UNCHANGED <<heap, spec, lastOk, aop, acall, hheap, hcall, rview, ui, parsers>>

GetInfo ==
    /\ LET g == getInfo(spec, heap)
       IN  last' = Event("getInfo", NullRef, "", NullCandidate, g.err, NullRef, g.val, spec)
    /\ UNCHANGED <<heap, spec, lastOk, aop, acall, hheap, hcall, rview, ui, parsers>>

GetVersion ==
    /\ LET g == getVersion(spec, heap)
       IN  last' = Event("getVersion", NullRef, "", NullCandidate, g.err, NullRef, g.val, spec)
    /\ UNCHANGED <<heap, spec, lastOk, aop, acall, hheap, hcall, rview, ui, parsers>>

NoOperation == [k \in {"summary"} |-> "none"]
NoCall == [op |-> "none", input |-> NoOperation, arg |-> "", same |-> TRUE,
           result |-> NoOperation, prevOp |-> "none", prevArg |-> "",
           prevInput |-> NoOperation]

\* a handler call, remembering the call made before it
Call(op, input, arg, same, result, prev) ==
    [op |-> op, input |-> input, arg |-> arg, same |-> same, result |-> result,
     prevOp |-> prev.op, prevArg |-> prev.arg, prevInput |-> prev.input]

NoHeapCall ==
    [op |-> "none", input |-> 0, ret |-> 0, key |-> "", before |-> <<>>, calls |-> 0]
NoUpload ==
    [file |-> "", error |-> "", data |-> NullCandidate, selectedPath |-> "",
     navigated |-> FALSE, reads |-> <<>>, event |-> "none", content |-> "",
     before |-> NullCandidate, pathBefore |-> ""]
NoParsers == <<NullRef, NullRef>>
NoRender == [status |-> "idle", doc |-> 0, stack |-> <<>>, chain |-> <<>>, shown |-> <<>>]

\* A new parser (createParser) and a caller that holds no object yet
Init ==
    /\ heap = [r \in Refs |-> Unalloc]
    /\ spec = NullRef
    /\ last = NoEvent
    /\ lastOk = NullRef
    /\ aop = NoOperation
    /\ acall = NoCall
    /\ hheap = <<>>
    /\ hcall = NoHeapCall
    /\ ui = NoUpload
    /\ parsers = NoParsers
    /\ rview = NoRender

Next ==
    \/ \E c \in SmallCandidates : NewObject(c)
    \/ \E r \in Refs : \E v \in SmallOpenapis : CallerWrite(r, "openapi", v)
    \/ \E r \in Refs : \E v \in SmallInfos : CallerWrite(r, "info", v)
    \/ \E r \in Refs : \E v \in SmallPaths : CallerWrite(r, "paths", v)
    \/ \E r \in Refs \cup {NullRef} : ParseObject(r)
    \/ \E text \in Texts : Parse(text)
    \/ GetSpec
    \/ GetPaths
    \/ \E path \in {"/users", "/missing"} : GetPath(path)
    \/ GetAllOperations
    \/ GetInfo
    \/ GetVersion

Spec == Init /\ [][Next]_vars


(***************************************************************************)
(* parseObject on one candidate object, over every combination of the      *)
(* fields validateSpec reads                                               *)
(***************************************************************************)
FullOpenapis == {Undefined, Null, Str(<<>>), Str(V300), Str(V20), Str(V30), Num(3)}
FullScalars == {Undefined, Str(<<>>)}
FullInfos ==
    {InfoAbsent, InfoNull} \cup
    {InfoObj(title, version) : title \in FullScalars \cup {Str(TitleChars)},
                               version \in FullScalars \cup {Str(VersionChars)}}
FullPaths == {PathsAbsent, PathsObj(<<>>), PathsUsers}
FullCandidates ==
    {Candidate(o, i, p) : o \in FullOpenapis, i \in FullInfos, p \in FullPaths}

InitValidate ==
    /\ \E c \in FullCandidates : heap = [r \in Refs |-> IF r = 1 THEN c ELSE Unalloc]
    /\ spec = NullRef
    /\ last = NoEvent
    /\ lastOk = NullRef
    /\ aop = NoOperation
    /\ acall = NoCall
    /\ hheap = <<>>
    /\ hcall = NoHeapCall
    /\ ui = NoUpload
    /\ parsers = NoParsers
    /\ rview = NoRender

NextValidate == \E r \in Refs \cup {NullRef} : ParseObject(r)

SpecValidate == InitValidate /\ [][NextValidate]_vars

(***************************************************************************)
(* getAllOperations over documents with up to MaxPaths paths and up to      *)
(* MaxOps operations, placed under any verbs of any paths; a path item may *)
(* also hold values that are not operations under a verb                   *)
(***************************************************************************)
PathKeys == <<"/users", "/accounts", "/items", "/orders">>

\* the subsets of S with at most k elements
RECURSIVE SubsetsUpTo(_, _)
SubsetsUpTo(S, k) ==
    IF k = 0
    THEN {{}}
    ELSE LET smaller == SubsetsUpTo(S, k - 1)
         IN  smaller \cup {T \cup {x} : T \in smaller, x \in S}

\* a path item whose get is null and whose post is a string
OddItem(item) == [item EXCEPT !["get"] = NullValue, !["post"] = StringValue]

\* Object.entries of the paths object with n paths whose operations sit at
\* the <<position, verb>> pairs of placed; odd makes the first item an OddItem
EntriesFor(n, placed, odd) ==
    [i \in 1..n |->
        LET item == Item(i, {verb \in Verbs : <<i, verb>> \in placed})
        IN  [key |-> PathKeys[i], item |-> IF odd /\ i = 1 THEN OddItem(item) ELSE item]]

InitOps ==
    /\ \E n \in 0..MaxPaths :
       \E placed \in SubsetsUpTo((1..n) \X Verbs, MaxOps) :
       \E odd \in BOOLEAN :
          heap = [r \in Refs |->
                     IF r = 1
                     THEN Candidate(Str(V300), InfoFull, PathsObj(EntriesFor(n, placed, odd)))
                     ELSE Unalloc]
    /\ spec = NullRef
    /\ last = NoEvent
    /\ lastOk = NullRef
    /\ aop = NoOperation
    /\ acall = NoCall
    /\ hheap = <<>>
    /\ hcall = NoHeapCall
    /\ ui = NoUpload
    /\ parsers = NoParsers
    /\ rview = NoRender

NextOps ==
    \/ ParseObject(1)
    \/ GetAllOperations

SpecOps == InitOps /\ [][NextOps]_vars

(***************************************************************************)
(* RouteAliasHandler.  An operation is a function from its keys to their   *)
(* values; a key outside the domain is an absent field.                    *)
(***************************************************************************)
ALIASES == "x-route-aliases"

\* operation['x-route-aliases'] || []
getAliases(operation) ==
    IF ALIASES \in DOMAIN operation THEN operation[ALIASES] ELSE <<>>

hasAliases(operation) == Len(getAliases(operation)) > 0

\* Array.prototype.includes
Contains(seq, x) == \E i \in 1..Len(seq) : seq[i] = x

\* { ...operation, [key]: value }
Spread(operation, key, value) == (key :> value) @@ operation

\* addAlias putting the new alias in front
addAlias_Prepend(operation, alias) ==
    LET aliases == getAliases(operation)
    IN  IF ~Contains(aliases, alias)
        THEN [same |-> FALSE, op |-> Spread(operation, ALIASES, <<alias>> \o aliases)]
        ELSE [same |-> TRUE, op |-> operation]

\* addAlias without the test for an alias that is already there
addAlias_Always(operation, alias) ==
    LET aliases == getAliases(operation)
    IN  [same |-> FALSE, op |-> Spread(operation, ALIASES, Append(aliases, alias))]

\* addAlias(operation, alias): same tells whether the value returned is the
\* input object itself
addAlias(operation, alias) ==
    LET aliases == getAliases(operation)
    IN  IF ~Contains(aliases, alias)
        THEN [same |-> FALSE, op |-> Spread(operation, ALIASES, Append(aliases, alias))]
        ELSE [same |-> TRUE, op |-> operation]

\* Array.prototype.filter(a => a !== alias)
RECURSIVE Without(_, _)
Without(seq, x) ==
    IF seq = <<>>
    THEN <<>>
    ELSE (IF Head(seq) # x THEN <<Head(seq)>> ELSE <<>>) \o Without(Tail(seq), x)

\* only the first occurrence is removed
removeAlias_First(operation, alias) ==
    LET aliases == getAliases(operation)
        first == CHOOSE i \in 1..Len(aliases) :
                     aliases[i] = alias /\ \A j \in 1..(i - 1) : aliases[j] # alias
    IN  [same |-> FALSE,
         op |-> Spread(operation, ALIASES,
                       IF Contains(aliases, alias)
                       THEN SubSeq(aliases, 1, first - 1)
                            \o SubSeq(aliases, first + 1, Len(aliases))
                       ELSE aliases)]

removeAlias(operation, alias) ==
    LET aliases == getAliases(operation)
    IN  [same |-> FALSE, op |-> Spread(operation, ALIASES, Without(aliases, alias))]

AliasNames == {"/accounts", "/members", "/people"}

RECURSIVE SeqsOfLen(_, _)
SeqsOfLen(S, n) ==
    IF n = 0 THEN {<<>>} ELSE {Append(q, x) : q \in SeqsOfLen(S, n - 1), x \in S}

AliasLists == UNION {SeqsOfLen(AliasNames, n) : n \in 0..MaxAliases}

\* operations without and with the other extension fields
BaseOperations ==
    {[k \in {"summary"} |-> "List users"],
     [k \in {"summary", "operationId"} |-> IF k = "summary" THEN "List users" ELSE "listUsers"]}

HandlerOperations ==
    BaseOperations \cup
    {Spread(b, ALIASES, l) : b \in BaseOperations, l \in AliasLists}

AddAlias(alias) ==
    /\ Len(getAliases(aop)) < MaxAliases \/ Contains(getAliases(aop), alias)
    /\ LET r == addAlias(aop, alias)
       IN  /\ aop' = r.op
           /\ acall' = Call("addAlias", aop, alias, r.same, r.op, acall)
    /\ UNCHANGED <<heap, spec, last, lastOk, hheap, hcall, rview, ui, parsers>>

RemoveAlias(alias) ==
    /\ LET r == removeAlias(aop, alias)
       IN  /\ aop' = r.op
           /\ acall' = Call("removeAlias", aop, alias, r.same, r.op, acall)
    /\ UNCHANGED <<heap, spec, last, lastOk, hheap, hcall, rview, ui, parsers>>

InitAlias ==
    /\ heap = [r \in Refs |-> Unalloc]
    /\ spec = NullRef
    /\ last = NoEvent
    /\ lastOk = NullRef
    /\ aop \in HandlerOperations
    /\ acall = NoCall
    /\ hheap = <<>>
    /\ hcall = NoHeapCall
    /\ ui = NoUpload
    /\ parsers = NoParsers
    /\ rview = NoRender

NextAlias ==
    \/ \E alias \in AliasNames : AddAlias(alias)
    \/ \E alias \in AliasNames : RemoveAlias(alias)

SpecAlias == InitAlias /\ [][NextAlias]_vars


(***************************************************************************)
(* Properties of parseObject and validateSpec                              *)
(***************************************************************************)
\* the six checks as the specification words them; a field is present when
\* it holds a value other than undefined, null and the empty string
Present(v) == v.t \notin {"undefined", "null"} /\ v # Str(<<>>)
CheckHolds(c, k) ==
    CASE k = 1 -> c.t = "object" /\ Present(c.openapi)
      [] k = 2 -> c.openapi.t = "string" /\ startsWith(c.openapi.s, <<"3", ".">>)
      [] k = 3 -> c.info.t = "object"
      [] k = 4 -> Present(c.info.title)
      [] k = 5 -> Present(c.info.version)
      [] k = 6 -> c.paths.t = "object"
FailingChecks(c) == {k \in 1..6 : ~CheckHolds(c, k)}
FirstFailing(c) == CHOOSE k \in FailingChecks(c) : \A q \in FailingChecks(c) : k <= q

\* the error names check k
NamesCheck(err, k) ==
    /\ err.thrown
    /\ err.name = "Error"
    /\ CASE k = 1 -> err.message = <<MissingField, "openapi">>
         [] k = 2 -> Head(err.message) = Unsupported
         [] k = 3 -> err.message = <<MissingField, "info">>
         [] k = 4 -> err.message = <<MissingField, "info.title">>
         [] k = 5 -> err.message = <<MissingField, "info.version">>
         [] k = 6 -> err.message = <<MissingField, "paths">>

\* C1: parseObject raises the validation error naming the first failing
\* check in the order openapi, version prefix, info, info.title,
\* info.version, paths, and succeeds when all six checks pass.
C1_FirstFailingCheckNamed ==
    last.op = "parseObject" =>
        IF FailingChecks(last.cand) = {}
        THEN ~last.err.thrown /\ last.ret = last.ref
        ELSE NamesCheck(last.err, FirstFailing(last.cand))

ParseOps == {"parse", "parseObject"}

\* C2: getSpec() is the document of the most recent successful parse or
\* parseObject call, null before the first one; a failing call leaves the
\* stored reference and the stored object as they were.
C2_GetSpecIsLastSuccess ==
    /\ [](getSpec(spec) = lastOk)
    /\ [][(last'.op \in ParseOps /\ last'.err.thrown) =>
             /\ spec' = spec
             /\ spec # NullRef => heap'[spec] = heap[spec]]_vars

C2_Witness ==
    /\ last.op \in ParseOps
    /\ last.err.thrown
    /\ last.before # NullRef
    /\ getSpec(spec) = last.before

NoDocument == NewError(<<NoSpecLoaded>>)
Accessors == {"getPaths", "getPath", "getAllOperations", "getInfo", "getVersion"}

\* C3: getPaths, getInfo, getVersion, getPath and getAllOperations fail
\* with the 'no spec loaded' error exactly when no parse or parseObject
\* call has succeeded so far.
C3_NoDocumentIffNoSuccess ==
    /\ \A e \in {getPaths(spec, heap).err, getInfo(spec, heap).err,
                 getVersion(spec, heap).err, getAllOperations(spec, heap).err,
                 getPath(spec, heap, "/users").err, getPath(spec, heap, "/missing").err} :
          (e = NoDocument) <=> (lastOk = NullRef)
    /\ last.op \in Accessors => ((last.err = NoDocument) <=> (lastOk = NullRef))

\* an accessor call answered after a success although the caller removed paths
C3_Witness ==
    /\ last.op = "getPaths"
    /\ ~last.err.thrown
    /\ lastOk # NullRef
    /\ last.val.t = "undefined"

\* C4: once parseObject has succeeded, the stored document has openapi,
\* info.title, info.version and paths present, whatever the holder of the
\* candidate object does.
C4_StoredDocumentStaysValid ==
    spec # NullRef =>
        /\ Present(heap[spec].openapi)
        /\ heap[spec].info.t = "object"
        /\ Present(heap[spec].info.title)
        /\ Present(heap[spec].info.version)
        /\ heap[spec].paths.t = "object"

\* C5: parse fails with the format error exactly when the text is not
\* well-formed; for well-formed text it fails exactly when parseObject
\* fails on the deserialized structure, and then with that same validation
\* error, which is not the format error.
C5_ParseIsParseObject ==
    last.op = "parse" =>
        LET formatError == last.err.thrown /\ includes(last.err.message, FailedToParse)
            v == validateSpec(last.cand)
        IN  IF ~WellFormed(last.text)
            THEN formatError
            ELSE /\ ~formatError
                 /\ last.err = v
                 /\ ~v.thrown => spec = last.ret /\ heap[last.ret] = last.cand

MissingTitle(c) == c.t = "object" /\ ~Present(c.info.title)

\* C6 as stated: for every document missing info.title, parseObject raises
\* the error citing info.title.
C6_MissingTitleCited ==
    (last.op = "parseObject" /\ MissingTitle(last.cand)) =>
        last.err = NewError(<<MissingField, "info.title">>)

\* C6: for every document that passes the openapi checks, has an info
\* object and misses info.title, parseObject raises the error citing
\* info.title, also when info.version is missing.
C6_MissingTitleCitedAfterEarlierChecks ==
    (/\ last.op = "parseObject"
     /\ MissingTitle(last.cand)
     /\ CheckHolds(last.cand, 1) /\ CheckHolds(last.cand, 2) /\ CheckHolds(last.cand, 3)) =>
        last.err = NewError(<<MissingField, "info.title">>)

C6_Witness ==
    /\ last.op = "parseObject"
    /\ MissingTitle(last.cand)
    /\ CheckHolds(last.cand, 1) /\ CheckHolds(last.cand, 2) /\ CheckHolds(last.cand, 3)
    /\ ~Present(last.cand.info.version)
    /\ last.err.thrown

\* C7: after a successful parseObject(D), getVersion() is D.openapi,
\* getInfo() is D.info and getPaths() is D.paths, also when another
\* document was loaded before.
C7_AccessorsReadLoadedDocument ==
    /\ (last.op = "parseObject" /\ ~last.err.thrown) =>
          /\ getVersion(spec, heap) = [err |-> NoError, val |-> last.cand.openapi]
          /\ getInfo(spec, heap) = [err |-> NoError, val |-> last.cand.info]
          /\ getPaths(spec, heap) = [err |-> NoError, val |-> last.cand.paths]
    /\ (last.op = "getVersion" /\ lastOk # NullRef) =>
          ~last.err.thrown /\ last.val = heap[lastOk].openapi
    /\ (last.op = "getInfo" /\ lastOk # NullRef) =>
          ~last.err.thrown /\ last.val = heap[lastOk].info
    /\ (last.op = "getPaths" /\ lastOk # NullRef) =>
          ~last.err.thrown /\ last.val = heap[lastOk].paths

\* D is loaded over an earlier document with another version
C7_Witness ==
    /\ last.op = "parseObject"
    /\ ~last.err.thrown
    /\ last.before # NullRef
    /\ last.before # last.ref
    /\ heap[last.before].openapi # last.cand.openapi
    /\ getVersion(spec, heap).val = last.cand.openapi


(***************************************************************************)
(* Properties of getAllOperations                                          *)
(***************************************************************************)
VerbOrder == <<"get", "put", "post", "delete", "options", "head", "patch", "trace">>
VerbPos(verb) == CHOOSE j \in 1..Len(VerbOrder) : VerbOrder[j] = verb
PathPos(entries, path) == CHOOSE i \in 1..Len(entries) : entries[i].key = path
Listed == last.op = "getAllOperations" /\ ~last.err.thrown
LoadedEntries == heap[spec].paths.entries

\* C8: the entries of getAllOperations() are ordered path by path in the
\* document's path order and, within a path, in the verb order get, put,
\* post, delete, options, head, patch, trace; each entry carries its path,
\* its verb and the operation the path holds for that verb; a verb that is
\* absent on a path has no entry.
C8_OperationsInPathThenVerbOrder ==
    Listed =>
        LET ops == last.val
            entries == LoadedEntries
        IN  /\ \A k \in 1..Len(ops) :
                  /\ \E i \in 1..Len(entries) : entries[i].key = ops[k].path
                  /\ \E j \in 1..Len(VerbOrder) : VerbOrder[j] = ops[k].method
                  /\ ops[k].operation =
                        entries[PathPos(entries, ops[k].path)].item[ops[k].method]
                  /\ ops[k].operation.t # "undefined"
            /\ \A k, l \in 1..Len(ops) :
                  k < l =>
                      \/ PathPos(entries, ops[k].path) < PathPos(entries, ops[l].path)
                      \/ /\ ops[k].path = ops[l].path
                         /\ VerbPos(ops[k].method) < VerbPos(ops[l].method)

\* two paths, the first listing put before post, the second path after it
C8_Witness ==
    /\ Listed
    /\ Len(last.val) >= 3
    /\ last.val[1].path = last.val[2].path
    /\ last.val[1].method = "put"
    /\ last.val[2].method = "post"
    /\ last.val[3].path # last.val[1].path

\* a verb is present on a path item when it holds an operation object
HoldsOperation(item, verb) == item[verb].t = "object"

RECURSIVE CountOperations(_)
CountOperations(entries) ==
    IF entries = <<>>
    THEN 0
    ELSE Cardinality({verb \in Verbs : HoldsOperation(Head(entries).item, verb)})
         + CountOperations(Tail(entries))

\* C9: the length of getAllOperations() is the sum over all paths of the
\* number of the 8 verbs that hold an operation on that path, and no entry
\* has a key outside the 8 verbs as its method.
C9_LengthIsVerbCount ==
    Listed =>
        /\ Len(last.val) = CountOperations(LoadedEntries)
        /\ \A k \in 1..Len(last.val) : last.val[k].method \in Verbs

\* path items carrying summary and parameters next to their operations
C9_Witness ==
    /\ Listed
    /\ Len(LoadedEntries) = 2
    /\ Len(last.val) = 3
    /\ \A i \in 1..Len(LoadedEntries) :
          /\ LoadedEntries[i].item["parameters"].t = "array"
          /\ LoadedEntries[i].item["summary"].t = "string"

(***************************************************************************)
(* Properties of the RouteAliasHandler                                     *)
(***************************************************************************)
\* C10: addAlias(op, alias) returns op with alias appended to its alias
\* sequence when alias is not in it, and returns op itself, unchanged, when
\* alias is already in it.
C10_AddAliasAppendsOnce ==
    acall.op = "addAlias" =>
        IF Contains(getAliases(acall.input), acall.arg)
        THEN acall.same /\ acall.result = acall.input
        ELSE getAliases(acall.result) = getAliases(acall.input) \o <<acall.arg>>

\* an alias appended behind an existing one
C10_Witness ==
    /\ acall.op = "addAlias"
    /\ ~acall.same
    /\ Len(getAliases(acall.input)) >= 1
    /\ Len(getAliases(acall.result)) = Len(getAliases(acall.input)) + 1


\* C11: removeAlias(op, alias) returns op with every occurrence of alias
\* removed from its alias sequence, the other aliases in their order; when
\* alias is not among the aliases of op, also when op has no
\* x-route-aliases field, the operation returned equals op.
C11_RemoveAliasNoOpWhenAbsent ==
    acall.op = "removeAlias" =>
        /\ getAliases(acall.result) = Without(getAliases(acall.input), acall.arg)
        /\ ~Contains(getAliases(acall.input), acall.arg) => acall.result = acall.input

SetOf(seq) == {seq[i] : i \in 1..Len(seq)}
CountOf(seq, x) == Cardinality({i \in 1..Len(seq) : seq[i] = x})

\* C12: addAlias(removeAlias(op, x), x) has as alias set the aliases of op
\* together with x, x occurring exactly once; and a second addAlias of the
\* same alias returns what the first returned.
C12_AddAfterRemoveAndIdempotence ==
    /\ (acall.op = "addAlias" /\ acall.prevOp = "removeAlias" /\ acall.prevArg = acall.arg) =>
          /\ SetOf(getAliases(acall.result)) =
                SetOf(getAliases(acall.prevInput)) \cup {acall.arg}
          /\ CountOf(getAliases(acall.result), acall.arg) = 1
    /\ (acall.op = "addAlias" /\ acall.prevOp = "addAlias" /\ acall.prevArg = acall.arg) =>
          acall.result = acall.input

\* the alias was there twice, next to another one, before it was removed and added
C12_Witness ==
    /\ acall.op = "addAlias"
    /\ acall.prevOp = "removeAlias"
    /\ acall.prevArg = acall.arg
    /\ CountOf(getAliases(acall.prevInput), acall.arg) >= 1
    /\ Len(getAliases(acall.result)) = 2
    /\ CountOf(getAliases(acall.result), acall.arg) = 1


(***************************************************************************)
(* RouteAliasHandler.validateAlias.  An alias is a sequence of             *)
(* one-character strings.                                                  *)
(***************************************************************************)
MaxAliasLen == 3   \* length of the alias strings tried exhaustively

LowerCase ==
    {"a", "b", "c", "d", "e", "f", "g", "h", "i", "j", "k", "l", "m", "n", "o", "p",
    "q", "r", "s", "t", "u", "v", "w", "x", "y", "z"}
UpperCase ==
    {"A", "B", "C", "D", "E", "F", "G", "H", "I", "J", "K", "L", "M", "N", "O", "P",
    "Q", "R", "S", "T", "U", "V", "W", "X", "Y", "Z"}
Digits == {"0", "1", "2", "3", "4", "5", "6", "7", "8", "9"}

\* the character class of the regular expression, as written:
\* [a-zA-Z0-9\-._~:/?#[\]@!$&'()*+,;=%{}]
RegexClass ==
    LowerCase \cup UpperCase \cup Digits \cup
    {"-", ".", "_", "~", ":", "/", "?", "#", "[", "]", "@", "!", "$", "&", "'",
     "(", ")", "*", "+", ",", ";", "=", "%", "{", "}"}

\* the same test without the $ anchor: a valid prefix is enough
validateAlias_Unanchored(alias) ==
    /\ Len(alias) >= 1
    /\ alias[1] = "/"

\* /^\/[class]*$/.test(alias)
validateAlias(alias) ==
    /\ Len(alias) >= 1
    /\ alias[1] = "/"
    /\ \A i \in 2..Len(alias) : alias[i] \in RegexClass

\* characters tried in every position: of the class, and outside it
SampleChars == {"/", "u", "{", "}", "?", "#", "%", " ", "\\", "|"}

AliasUsersId == <<"/", "u", "s", "e", "r", "s", "/", "{", "i", "d", "}">>
AliasApiV2Users == <<"/", "a", "p", "i", "/", "v", "2", "/", "u", "s", "e", "r", "s">>
AliasUsersNoSlash == <<"u", "s", "e", "r", "s">>
AliasQuery == <<"/", "u", "s", "e", "r", "s", "?", "p", "a", "g", "e", "=", "1">>
AliasExamples == {AliasUsersId, AliasApiV2Users, AliasUsersNoSlash, AliasQuery}

\* the strings of at most n sample characters, and the documented examples
AliasInputs(n) ==
    UNION {SeqsOfLen(SampleChars, k) : k \in 0..n} \cup AliasExamples

ValidateAlias ==
    /\ acall.op = "alias"
    /\ acall' = Call("validateAlias", NoOperation, acall.arg, TRUE,
                      validateAlias(acall.arg), NoCall)
    /\ UNCHANGED <<heap, spec, last, lastOk, aop, hheap, hcall, rview, ui, parsers>>

InitAliasFormat ==
    /\ heap = [r \in Refs |-> Unalloc]
    /\ spec = NullRef
    /\ last = NoEvent
    /\ lastOk = NullRef
    /\ aop = NoOperation
    /\ acall \in {Call("alias", NoOperation, alias, TRUE, FALSE, NoCall) :
                     alias \in AliasInputs(MaxAliasLen)}
    /\ hheap = <<>>
    /\ hcall = NoHeapCall
    /\ ui = NoUpload
    /\ parsers = NoParsers
    /\ rview = NoRender

NextAliasFormat == ValidateAlias

SpecAliasFormat == InitAliasFormat /\ [][NextAliasFormat]_vars

\* RFC 3986: unreserved, sub-delims, gen-delims
Unreserved == LowerCase \cup UpperCase \cup Digits \cup {"-", ".", "_", "~"}
SubDelims == {"!", "$", "&", "'", "(", ")", "*", "+", ",", ";", "="}
GenDelims == {":", "/", "?", "#", "[", "]", "@"}
\* what a path segment may hold (pchar, with % for pct-encoded), the
\* segment separator, and the braces of path parameters
PathSegmentSafe == Unreserved \cup SubDelims \cup {":", "@", "%"}
PathTemplateChars == PathSegmentSafe \cup {"/", "{", "}"}
UriChars == Unreserved \cup SubDelims \cup GenDelims \cup {"%", "{", "}"}

StartsWithSlashThenOnly(alias, allowed) ==
    /\ alias # <<>>
    /\ Head(alias) = "/"
    /\ \A i \in 1..Len(Tail(alias)) : Tail(alias)[i] \in allowed

MaxTags == 2   \* longest tag list an operation gets

TAGS == "x-custom-tags"

\* operation['x-custom-tags'] || []
getCustomTags(operation) ==
    IF TAGS \in DOMAIN operation THEN operation[TAGS] ELSE <<>>

hasCustomTags(operation) == Len(getCustomTags(operation)) > 0

\* tags.some(t => t.name === name)
SomeNamed(tags, name) == \E i \in 1..Len(tags) : tags[i].name = name

\* a collision replaces the stored tag by the new one
addCustomTag_Overwrite(operation, tag) ==
    LET tags == getCustomTags(operation)
    IN  IF SomeNamed(tags, tag.name)
        THEN [same |-> FALSE,
              op |-> Spread(operation, TAGS,
                            [i \in 1..Len(tags) |->
                                IF tags[i].name = tag.name THEN tag ELSE tags[i]])]
        ELSE [same |-> FALSE, op |-> Spread(operation, TAGS, Append(tags, tag))]

\* only the very same tag collides
addCustomTag_SameTag(operation, tag) ==
    LET tags == getCustomTags(operation)
    IN  IF \E i \in 1..Len(tags) : tags[i] = tag
        THEN [same |-> TRUE, op |-> operation]
        ELSE [same |-> FALSE, op |-> Spread(operation, TAGS, Append(tags, tag))]

addCustomTag(operation, tag) ==
    LET tags == getCustomTags(operation)
    IN  IF SomeNamed(tags, tag.name)
        THEN [same |-> TRUE, op |-> operation]
        ELSE [same |-> FALSE, op |-> Spread(operation, TAGS, Append(tags, tag))]

\* tags.filter(t => t.name !== tagName)
RECURSIVE NotNamed(_, _)
NotNamed(tags, tagName) ==
    IF tags = <<>> THEN <<>>
    ELSE IF Head(tags).name # tagName
         THEN <<Head(tags)>> \o NotNamed(Tail(tags), tagName)
         ELSE NotNamed(Tail(tags), tagName)

removeCustomTag(operation, tagName) ==
    [same |-> FALSE,
     op |-> Spread(operation, TAGS, NotNamed(getCustomTags(operation), tagName))]

TagNames == {"Admin", "Beta"}
TagColors == {"red", "blue"}
CustomTags == [name : TagNames, color : TagColors]

TagOperations(n) ==
    BaseOperations \cup
    {Spread(b, TAGS, l) : b \in BaseOperations,
                          l \in UNION {SeqsOfLen(CustomTags, k) : k \in 0..n}}

AddCustomTag(tag) ==
    /\ Len(getCustomTags(aop)) < MaxTags \/ SomeNamed(getCustomTags(aop), tag.name)
    /\ LET r == addCustomTag(aop, tag)
       IN  /\ aop' = r.op
           /\ acall' = Call("addCustomTag", aop, tag, r.same, r.op, acall)
    /\ UNCHANGED <<heap, spec, last, lastOk, hheap, hcall, rview, ui, parsers>>

RemoveCustomTag(tagName) ==
    /\ LET r == removeCustomTag(aop, tagName)
       IN  /\ aop' = r.op
           /\ acall' = Call("removeCustomTag", aop, tagName, r.same, r.op, acall)
    /\ UNCHANGED <<heap, spec, last, lastOk, hheap, hcall, rview, ui, parsers>>

InitTags ==
    /\ heap = [r \in Refs |-> Unalloc]
    /\ spec = NullRef
    /\ last = NoEvent
    /\ lastOk = NullRef
    /\ aop \in TagOperations(MaxTags)
    /\ acall = NoCall
    /\ hheap = <<>>
    /\ hcall = NoHeapCall
    /\ ui = NoUpload
    /\ parsers = NoParsers
    /\ rview = NoRender

NextTags ==
    \/ \E tag \in CustomTags : AddCustomTag(tag)
    \/ \E tagName \in TagNames : RemoveCustomTag(tagName)

SpecTags == InitTags /\ [][NextTags]_vars

NamedIn(tags, name) == {i \in 1..Len(tags) : tags[i].name = name}

\* C14: addCustomTag(op, tag) returns op itself when a tag of that name is
\* stored and otherwise op with tag appended at the end of its tag list; so
\* when a name not yet stored is added twice with different other fields,
\* exactly one tag carries the name afterwards, and it is the one added
\* first.
C14_AddCustomTagKeepsFirst ==
    /\ acall.op = "addCustomTag" =>
          IF SomeNamed(getCustomTags(acall.input), acall.arg.name)
          THEN acall.same /\ acall.result = acall.input
          ELSE /\ getCustomTags(acall.result) = Append(getCustomTags(acall.input), acall.arg)
               /\ acall.result[TAGS][Len(acall.result[TAGS])] = acall.arg
    /\ (/\ acall.op = "addCustomTag"
        /\ acall.prevOp = "addCustomTag"
        /\ acall.prevArg.name = acall.arg.name
        /\ ~SomeNamed(getCustomTags(acall.prevInput), acall.arg.name)) =>
          /\ Cardinality(NamedIn(getCustomTags(acall.result), acall.arg.name)) = 1
          /\ \A i \in NamedIn(getCustomTags(acall.result), acall.arg.name) :
                 getCustomTags(acall.result)[i] = acall.prevArg

\* "Admin" added in red, then in blue, to an operation that held another tag
C14_Witness ==
    /\ acall.op = "addCustomTag"
    /\ acall.prevOp = "addCustomTag"
    /\ acall.prevArg = [name |-> "Admin", color |-> "red"]
    /\ acall.arg = [name |-> "Admin", color |-> "blue"]
    /\ Len(getCustomTags(acall.prevInput)) = 1
    /\ Len(getCustomTags(acall.result)) = 2


(***************************************************************************)
(* PermissionFlagsHandler.  A permission record is a function from the     *)
(* fields it has to their lists.                                           *)
(***************************************************************************)
MaxPerms == 2   \* longest required or roles list an operation gets

PERMISSIONS == "x-permissions"
FlagKeys == {"required", "optional", "roles", "scopes"}
EmptyFlags == [k \in {} |-> <<>>]

hasPermissions(operation) == PERMISSIONS \in DOMAIN operation

\* this.getPermissions(operation) || {}
CurrentFlags(operation) ==
    IF PERMISSIONS \in DOMAIN operation THEN operation[PERMISSIONS] ELSE EmptyFlags

\* current.required || [], current.roles || []
ListOf(flags, key) == IF key \in DOMAIN flags THEN flags[key] ELSE <<>>

getRequiredPermissions(operation) == ListOf(CurrentFlags(operation), "required")
getOptionalPermissions(operation) == ListOf(CurrentFlags(operation), "optional")
getRequiredRoles(operation) == ListOf(CurrentFlags(operation), "roles")
getRequiredScopes(operation) == ListOf(CurrentFlags(operation), "scopes")

requiresPermission(operation, permission) ==
    Contains(getRequiredPermissions(operation), permission)
requiresRole(operation, role) == Contains(getRequiredRoles(operation), role)

setPermissions(operation, permissions) ==
    [same |-> FALSE, op |-> Spread(operation, PERMISSIONS, permissions)]

\* the new record holds the extended list only
AppendUnlessIncluded_FreshRecord(operation, key, item) ==
    LET list == ListOf(CurrentFlags(operation), key)
    IN  IF ~Contains(list, item)
        THEN [same |-> FALSE,
              op |-> Spread(operation, PERMISSIONS, (key :> Append(list, item)))]
        ELSE [same |-> TRUE, op |-> operation]

\* the body shared by addRequiredPermission and addRequiredRole
AppendUnlessIncluded(operation, key, item) ==
    LET current == CurrentFlags(operation)
        list == ListOf(current, key)
    IN  IF ~Contains(list, item)
        THEN [same |-> FALSE,
              op |-> Spread(operation, PERMISSIONS, Spread(current, key, Append(list, item)))]
        ELSE [same |-> TRUE, op |-> operation]

addRequiredPermission(operation, permission) ==
    AppendUnlessIncluded(operation, "required", permission)
addRequiredRole(operation, role) == AppendUnlessIncluded(operation, "roles", role)

PermNames == {"read", "write"}
RoleNames == {"admin"}
Optionals == {<<"read">>}
Scopes == {<<"users:read">>}

\* the permission records with lists of at most n entries
FlagRecords(n) ==
    LET required == UNION {SeqsOfLen(PermNames, k) : k \in 0..n}
        roles == UNION {SeqsOfLen(RoleNames, k) : k \in 0..n}
        choice(key) == CASE key = "required" -> required
                         [] key = "roles" -> roles
                         [] key = "optional" -> Optionals
                         [] key = "scopes" -> Scopes
    IN  UNION {[keys -> UNION {choice(k) : k \in keys}] : keys \in SUBSET FlagKeys}

WellTyped(flags) ==
    /\ \A k \in DOMAIN flags \cap {"required"} :
          \A i \in 1..Len(flags[k]) : flags[k][i] \in PermNames
    /\ \A k \in DOMAIN flags \cap {"roles"} :
          \A i \in 1..Len(flags[k]) : flags[k][i] \in RoleNames
    /\ \A k \in DOMAIN flags \cap {"optional"} : flags[k] \in Optionals
    /\ \A k \in DOMAIN flags \cap {"scopes"} : flags[k] \in Scopes

PermOperations(n) ==
    BaseOperations \cup
    {Spread(b, PERMISSIONS, f) : b \in BaseOperations,
                                 f \in {g \in FlagRecords(n) : WellTyped(g)}}

\* the records a caller sets
SetFlags == {EmptyFlags, ("required" :> <<"read">>), ("roles" :> <<"admin">>)}

AddRequiredPermission(permission) ==
    /\ \/ Len(getRequiredPermissions(aop)) < MaxPerms
       \/ requiresPermission(aop, permission)
    /\ LET r == addRequiredPermission(aop, permission)
       IN  /\ aop' = r.op
           /\ acall' = Call("addRequiredPermission", aop, permission, r.same, r.op, NoCall)
    /\ UNCHANGED <<heap, spec, last, lastOk, hheap, hcall, rview, ui, parsers>>

AddRequiredRole(role) ==
    /\ \/ Len(getRequiredRoles(aop)) < MaxPerms
       \/ requiresRole(aop, role)
    /\ LET r == addRequiredRole(aop, role)
       IN  /\ aop' = r.op
           /\ acall' = Call("addRequiredRole", aop, role, r.same, r.op, NoCall)
    /\ UNCHANGED <<heap, spec, last, lastOk, hheap, hcall, rview, ui, parsers>>

SetPermissions(permissions) ==
    /\ LET r == setPermissions(aop, permissions)
       IN  /\ aop' = r.op
           /\ acall' = Call("setPermissions", aop, "", r.same, r.op, NoCall)
    /\ UNCHANGED <<heap, spec, last, lastOk, hheap, hcall, rview, ui, parsers>>

InitPerms ==
    /\ heap = [r \in Refs |-> Unalloc]
    /\ spec = NullRef
    /\ last = NoEvent
    /\ lastOk = NullRef
    /\ aop \in PermOperations(MaxPerms)
    /\ acall = NoCall
    /\ hheap = <<>>
    /\ hcall = NoHeapCall
    /\ ui = NoUpload
    /\ parsers = NoParsers
    /\ rview = NoRender

NextPerms ==
    \/ \E permission \in PermNames : AddRequiredPermission(permission)
    \/ \E role \in RoleNames : AddRequiredRole(role)
    \/ \E permissions \in SetFlags : SetPermissions(permissions)

SpecPerms == InitPerms /\ [][NextPerms]_vars

NoDuplicates(list) == \A i, j \in 1..Len(list) : list[i] = list[j] => i = j

\* what C15 says of one call that added item to the list under key
AddedOnce(key, required) ==
    LET before == CurrentFlags(acall.input)
        after == CurrentFlags(acall.result)
    IN  /\ NoDuplicates(ListOf(before, key)) => CountOf(ListOf(after, key), acall.arg) = 1
        /\ ~Contains(ListOf(before, key), acall.arg) =>
               ListOf(after, key) = Append(ListOf(before, key), acall.arg)
        /\ Contains(ListOf(before, key), acall.arg) =>
               ListOf(after, key) = ListOf(before, key)
        /\ hasPermissions(acall.result)
        /\ \A k \in FlagKeys \ {key} :
               /\ k \in DOMAIN after <=> k \in DOMAIN before
               /\ k \in DOMAIN before => after[k] = before[k]
        /\ required

\* C15: addRequiredPermission(op, p) returns an operation whose required
\* list holds p once when the input list had no duplicates, at its end when
\* p was missing; the result has a permission record even when op had none;
\* the other fields of the record are as in op; requiresPermission(result,
\* p) is true.  addRequiredRole does the same with the roles list and
\* requiresRole.
C15_AddRequiredAppendsOnce ==
    /\ acall.op = "addRequiredPermission" =>
          AddedOnce("required", requiresPermission(acall.result, acall.arg))
    /\ acall.op = "addRequiredRole" =>
          AddedOnce("roles", requiresRole(acall.result, acall.arg))

\* "read" appended to a record that has the three other fields
C15_Witness ==
    /\ acall.op = "addRequiredPermission"
    /\ acall.arg = "read"
    /\ DOMAIN CurrentFlags(acall.input) = FlagKeys
    /\ getRequiredPermissions(acall.input) = <<"write">>
    /\ getRequiredPermissions(acall.result) = <<"write", "read">>


(***************************************************************************)
(* The handlers on a heap of objects and arrays: an operation is a cell    *)
(* whose extension fields refer to the cells of its lists and of its       *)
(* permission record, so that a write into a list of the input shows.      *)
(***************************************************************************)
MaxCalls == 2   \* handler calls in one run

StrV(s) == [t |-> "str", s |-> s, c |-> "", r |-> 0]
TagV(name, color) == [t |-> "tag", s |-> name, c |-> color, r |-> 0]
RefV(r) == [t |-> "ref", s |-> "", c |-> "", r |-> r]

EmptyFields == [k \in {} |-> RefV(0)]
ObjCell(fields) == [kind |-> "object", fields |-> fields, items |-> <<>>]
ArrCell(items) == [kind |-> "array", fields |-> EmptyFields, items |-> items]

\* operation[key] || [], read
ItemsAt(h, o, key) ==
    IF key \in DOMAIN h[o].fields THEN h[h[o].fields[key].r].items ELSE <<>>

\* list.push(item) where the list exists
NewList_Push(h, o, key, items) ==
    IF key \in DOMAIN h[o].fields
    THEN [heap |-> [h EXCEPT ![h[o].fields[key].r].items = items],
          ref |-> h[o].fields[key].r]
    ELSE [heap |-> Append(h, ArrCell(items)), ref |-> Len(h) + 1]

\* [...list, item] and list.filter(...): a new array
NewList(h, o, key, items) ==
    [heap |-> Append(h, ArrCell(items)), ref |-> Len(h) + 1]

\* { key: value }
WithField_Alone(h, o, key, value) ==
    [heap |-> Append(h, ObjCell((key :> value))), ret |-> Len(h) + 1]

\* { ...object, key: value }: a new object
WithField(h, o, key, value) ==
    [heap |-> Append(h, ObjCell(Spread(h[o].fields, key, value))), ret |-> Len(h) + 1]

addAliasAt(h, operation, alias) ==
    LET aliases == ItemsAt(h, operation, ALIASES)
    IN  IF ~Contains(aliases, StrV(alias))
        THEN LET l == NewList(h, operation, ALIASES, Append(aliases, StrV(alias)))
             IN  WithField(l.heap, operation, ALIASES, RefV(l.ref))
        ELSE [heap |-> h, ret |-> operation]

removeAliasAt(h, operation, alias) ==
    LET aliases == ItemsAt(h, operation, ALIASES)
        differs(a) == a # StrV(alias)
        l == NewList(h, operation, ALIASES, SelectSeq(aliases, differs))
    IN  WithField(l.heap, operation, ALIASES, RefV(l.ref))

addCustomTagAt(h, operation, tag) ==
    LET tags == ItemsAt(h, operation, TAGS)
    IN  IF \E i \in 1..Len(tags) : tags[i].s = tag.s
        THEN [heap |-> h, ret |-> operation]
        ELSE LET l == NewList(h, operation, TAGS, Append(tags, tag))
             IN  WithField(l.heap, operation, TAGS, RefV(l.ref))

removeCustomTagAt(h, operation, tagName) ==
    LET tags == ItemsAt(h, operation, TAGS)
        differs(t) == t.s # tagName
        l == NewList(h, operation, TAGS, SelectSeq(tags, differs))
    IN  WithField(l.heap, operation, TAGS, RefV(l.ref))

setPermissionsAt(h, operation, permissions) ==
    WithField(h, operation, PERMISSIONS, RefV(permissions))

\* addRequiredPermission and addRequiredRole, key being required or roles
AppendUnlessIncludedAt(h, operation, key, item) ==
    LET has == PERMISSIONS \in DOMAIN h[operation].fields
        \* this.getPermissions(operation) || {}
        h0 == IF has THEN h ELSE Append(h, ObjCell(EmptyFields))
        current == IF has THEN h[operation].fields[PERMISSIONS].r ELSE Len(h0)
        list == ItemsAt(h0, current, key)
    IN  IF ~Contains(list, StrV(item))
        THEN LET l == NewList(h0, current, key, Append(list, StrV(item)))
                 record == WithField(l.heap, current, key, RefV(l.ref))
             IN  WithField(record.heap, operation, PERMISSIONS, RefV(record.ret))
        ELSE [heap |-> h0, ret |-> operation]

addRequiredPermissionAt(h, operation, permission) ==
    AppendUnlessIncludedAt(h, operation, "required", permission)
addRequiredRoleAt(h, operation, role) ==
    AppendUnlessIncludedAt(h, operation, "roles", role)

\* a list an operation may have, or not
None == [has |-> FALSE, items |-> <<>>]
Opt(items) == [has |-> TRUE, items |-> items]
NoFlags == [has |-> FALSE, required |-> None, roles |-> None]
Flags(required, roles) == [has |-> TRUE, required |-> required, roles |-> roles]

\* the object at cell o gets a new array under key
PutList(h, o, key, opt) ==
    IF opt.has
    THEN LET h1 == Append(h, ArrCell(opt.items))
         IN  [h1 EXCEPT ![o].fields = Spread(@, key, RefV(Len(h1)))]
    ELSE h

PutFlags(h, o, flags) ==
    IF flags.has
    THEN LET h1 == Append(h, ObjCell(EmptyFields))
             record == Len(h1)
             h2 == PutList(h1, record, "required", flags.required)
             h3 == PutList(h2, record, "roles", flags.roles)
         IN  [h3 EXCEPT ![o].fields = Spread(@, PERMISSIONS, RefV(record))]
    ELSE h

RootOp == 1

\* the operation of a parsed document: cell 1 and what it refers to
HeapOf(aliases, tags, flags) ==
    LET h0 == <<ObjCell(("summary" :> StrV("List users")))>>
        h1 == PutList(h0, RootOp, ALIASES, aliases)
        h2 == PutList(h1, RootOp, TAGS, tags)
    IN  PutFlags(h2, RootOp, flags)

StoredAliases == {None, Opt(<<>>), Opt(<<StrV("/accounts")>>), Opt(<<StrV("/members")>>)}
StoredTags == {None, Opt(<<TagV("Admin", "red")>>)}
StoredFlags ==
    {NoFlags, Flags(None, None), Flags(Opt(<<StrV("read")>>), None),
     Flags(Opt(<<StrV("write")>>), Opt(<<StrV("admin")>>))}

HeapCall(op, key, o, r, before) ==
    [op |-> op, input |-> o, ret |-> r.ret, key |-> key, before |-> before,
     calls |-> hcall.calls + 1]

\* the caller passes the stored operation or the last result
Inputs == {RootOp, hcall.ret}

AddAliasAt(o, alias) ==
    /\ hcall.calls < MaxCalls
    /\ LET r == addAliasAt(hheap, o, alias)
       IN  /\ hheap' = r.heap
           /\ hcall' = HeapCall("addAlias", ALIASES, o, r, hheap)
    /\ UNCHANGED <<heap, spec, last, lastOk, aop, acall, rview, ui, parsers>>

RemoveAliasAt(o, alias) ==
    /\ hcall.calls < MaxCalls
    /\ LET r == removeAliasAt(hheap, o, alias)
       IN  /\ hheap' = r.heap
           /\ hcall' = HeapCall("removeAlias", ALIASES, o, r, hheap)
    /\ UNCHANGED <<heap, spec, last, lastOk, aop, acall, rview, ui, parsers>>

AddCustomTagAt(o, tag) ==
    /\ hcall.calls < MaxCalls
    /\ LET r == addCustomTagAt(hheap, o, tag)
       IN  /\ hheap' = r.heap
           /\ hcall' = HeapCall("addCustomTag", TAGS, o, r, hheap)
    /\ UNCHANGED <<heap, spec, last, lastOk, aop, acall, rview, ui, parsers>>

RemoveCustomTagAt(o, tagName) ==
    /\ hcall.calls < MaxCalls
    /\ LET r == removeCustomTagAt(hheap, o, tagName)
       IN  /\ hheap' = r.heap
           /\ hcall' = HeapCall("removeCustomTag", TAGS, o, r, hheap)
    /\ UNCHANGED <<heap, spec, last, lastOk, aop, acall, rview, ui, parsers>>

\* the caller builds the record { required: [permission] } and passes it
SetPermissionsAt(o, permission) ==
    /\ hcall.calls < MaxCalls
    /\ LET h1 == Append(hheap, ObjCell(EmptyFields))
           h2 == PutList(h1, Len(h1), "required", Opt(<<StrV(permission)>>))
           r == setPermissionsAt(h2, o, Len(h1))
       IN  /\ hheap' = r.heap
           /\ hcall' = HeapCall("setPermissions", PERMISSIONS, o, r, h2)
    /\ UNCHANGED <<heap, spec, last, lastOk, aop, acall, rview, ui, parsers>>

AddRequiredPermissionAt(o, permission) ==
    /\ hcall.calls < MaxCalls
    /\ LET r == addRequiredPermissionAt(hheap, o, permission)
       IN  /\ hheap' = r.heap
           /\ hcall' = HeapCall("addRequiredPermission", PERMISSIONS, o, r, hheap)
    /\ UNCHANGED <<heap, spec, last, lastOk, aop, acall, rview, ui, parsers>>

AddRequiredRoleAt(o, role) ==
    /\ hcall.calls < MaxCalls
    /\ LET r == addRequiredRoleAt(hheap, o, role)
       IN  /\ hheap' = r.heap
           /\ hcall' = HeapCall("addRequiredRole", PERMISSIONS, o, r, hheap)
    /\ UNCHANGED <<heap, spec, last, lastOk, aop, acall, rview, ui, parsers>>

InitCow ==
    /\ heap = [r \in Refs |-> Unalloc]
    /\ spec = NullRef
    /\ last = NoEvent
    /\ lastOk = NullRef
    /\ aop = NoOperation
    /\ acall = NoCall
    /\ hheap \in {HeapOf(a, t, f) : a \in StoredAliases, t \in StoredTags, f \in StoredFlags}
    /\ hcall = [NoHeapCall EXCEPT !.ret = RootOp]
    /\ ui = NoUpload
    /\ parsers = NoParsers
    /\ rview = NoRender

NextCow ==
    \/ \E o \in Inputs : AddAliasAt(o, "/accounts")
    \/ \E o \in Inputs : RemoveAliasAt(o, "/accounts")
    \/ \E o \in Inputs : AddCustomTagAt(o, TagV("Admin", "blue"))
    \/ \E o \in Inputs : RemoveCustomTagAt(o, "Admin")
    \/ \E o \in Inputs : SetPermissionsAt(o, "read")
    \/ \E o \in Inputs : AddRequiredPermissionAt(o, "read")
    \/ \E o \in Inputs : AddRequiredRoleAt(o, "admin")

SpecCow == InitCow /\ [][NextCow]_vars

\* what a reader of the operation at cell o sees, lists and record included
ViewFlags(h, record) ==
    [k \in DOMAIN h[record].fields |-> h[h[record].fields[k].r].items]

ViewField(h, o, k) ==
    CASE k = PERMISSIONS -> ViewFlags(h, h[o].fields[k].r)
      [] k \in {ALIASES, TAGS} -> h[h[o].fields[k].r].items
      [] OTHER -> h[o].fields[k]

Mutators ==
    {"addAlias", "removeAlias", "addCustomTag", "removeCustomTag", "setPermissions",
     "addRequiredPermission", "addRequiredRole"}

\* C16: after a mutator's call, every cell that existed before the call,
\* so the input operation, its lists, its permission record and any
\* operation stored in a document, holds what it held before the call, and
\* the input reads field by field as it read before.
C16_MutatorsLeaveInputAlone ==
    hcall.op \in Mutators =>
        /\ Len(hheap) >= Len(hcall.before)
        /\ \A i \in 1..Len(hcall.before) : hheap[i] = hcall.before[i]
        /\ DOMAIN hheap[hcall.input].fields = DOMAIN hcall.before[hcall.input].fields
        /\ \A k \in DOMAIN hcall.before[hcall.input].fields :
               ViewField(hheap, hcall.input, k) = ViewField(hcall.before, hcall.input, k)

\* an alias added to a stored operation that had another alias
C16_Witness ==
    /\ hcall.op = "addAlias"
    /\ hcall.input = RootOp
    /\ hcall.ret # hcall.input
    /\ ItemsAt(hcall.before, RootOp, ALIASES) = <<StrV("/members")>>
    /\ ItemsAt(hheap, hcall.ret, ALIASES) = <<StrV("/members"), StrV("/accounts")>>

\* C17: the operation a mutator returns has, apart from the mutator's own
\* extension field, the fields of the input and no other, each reading as
\* it read in the input before the call.
C17_OtherFieldsAgree ==
    hcall.op \in Mutators =>
        LET before == DOMAIN hcall.before[hcall.input].fields \ {hcall.key}
            after == DOMAIN hheap[hcall.ret].fields \ {hcall.key}
        IN  /\ after = before
            /\ \A k \in before :
                   ViewField(hheap, hcall.ret, k) = ViewField(hcall.before, hcall.input, k)

\* a tag added to an operation that has aliases and permissions
C17_Witness ==
    /\ hcall.op = "addCustomTag"
    /\ hcall.ret # hcall.input
    /\ {ALIASES, PERMISSIONS, "summary"} \subseteq DOMAIN hheap[hcall.input].fields
    /\ ItemsAt(hheap, hcall.input, ALIASES) # <<>>
    /\ TAGS \in DOMAIN hheap[hcall.ret].fields


(***************************************************************************)
(* resolveRef.  A ref is a sequence of pieces: "#", "/", and names without *)
(* either.  A segment is the sequence of pieces between two "/"; a path is *)
(* a sequence of segments.  The data is a function from the paths of its   *)
(* values to their types, the empty path being the data itself.            *)
(***************************************************************************)
MaxRefLen == 4   \* pieces of the refs tried exhaustively

Key(name) == <<name>>

\* a value reached by a walk: its type and the accesses that led to it
Value(t, path) == [t |-> t, p |-> path]
UndefinedValue == Value("undefined", <<>>)
NullResult == Value("null", <<>>)

\* properties every object inherits, of which these are tried
ObjectPrototype == {Key("constructor"), Key("toString")}

\* result?.[part]
Access(data, result, part) ==
    LET q == Append(result.p, part)
    IN  CASE result.t \in {"undefined", "null"} -> UndefinedValue
          [] result.t = "object" ->
                IF q \in DOMAIN data THEN Value(data[q], q)
                ELSE IF part \in ObjectPrototype THEN Value("function", q)
                ELSE UndefinedValue
          [] result.t = "string" ->
                IF part = Key("length") THEN Value("number", q)
                ELSE IF part = Key("0") THEN Value("string", q)
                ELSE IF part \in ObjectPrototype THEN Value("function", q)
                ELSE UndefinedValue
          [] OTHER ->
                IF part \in ObjectPrototype THEN Value("function", q)
                ELSE UndefinedValue

\* rest.split('/')
RECURSIVE Split(_)
Split(pieces) ==
    IF \A i \in 1..Len(pieces) : pieces[i] # "/"
    THEN <<pieces>>
    ELSE LET at == CHOOSE i \in 1..Len(pieces) :
                       pieces[i] = "/" /\ \A j \in 1..(i - 1) : pieces[j] # "/"
         IN  <<SubSeq(pieces, 1, at - 1)>> \o Split(SubSeq(pieces, at + 1, Len(pieces)))

\* for (const part of parts) result = result?.[part]
RECURSIVE Walk(_, _, _)
Walk(data, result, parts) ==
    IF parts = <<>> THEN result
    ELSE Walk(data, Access(data, result, Head(parts)), Tail(parts))

HashSlash == <<"#", "/">>

\* a record { $ref: other } found at the pointer is followed to other
resolveRef_Following(ref, data) ==
    IF ~startsWith(ref, HashSlash) THEN NullResult
    ELSE LET parts == Split(SubSeq(ref, Len(HashSlash) + 1, Len(ref)))
             found == Walk(data, Value(data[<<>>], <<>>), parts)
         IN  IF found.t = "object" /\ Append(found.p, Key("$ref")) \in DOMAIN data
             THEN Value("object", <<Key("components"), Key("schemas"), Key("User")>>)
             ELSE found

resolveRef(ref, data) ==
    IF ~startsWith(ref, HashSlash) THEN NullResult
    ELSE LET parts == Split(SubSeq(ref, Len(HashSlash) + 1, Len(ref)))
         IN  Walk(data, Value(data[<<>>], <<>>), parts)

\* { openapi: '3.0', components: { schemas: { User: { type: 'object' } } } }
SchemaDocument ==
    (<<>> :> "object")
    @@ (<<Key("openapi")>> :> "string")
    @@ (<<Key("components")>> :> "object")
    @@ (<<Key("components"), Key("schemas")>> :> "object")
    @@ (<<Key("components"), Key("schemas"), Key("User")>> :> "object")
    @@ (<<Key("components"), Key("schemas"), Key("User"), Key("type")>> :> "string")

\* no data
NullDocument == (<<>> :> "null")

\* SchemaDocument with schemas.Alias: { $ref: '#/components/schemas/User' }
AliasDocument ==
    SchemaDocument
    @@ (<<Key("components"), Key("schemas"), Key("Alias")>> :> "object")
    @@ (<<Key("components"), Key("schemas"), Key("Alias"), Key("$ref")>> :> "string")

RefPieces == {"#", "/", "components", "openapi", "constructor", "length", "Missing"}
RefUser == <<"#", "/", "components", "/", "schemas", "/", "User">>
RefMissing == <<"#", "/", "components", "/", "schemas", "/", "Missing">>
RefExternal == <<"other.yaml", "#", "/", "components", "/", "schemas", "/", "User">>
RefDeepMissing == <<"#", "/", "Missing", "/", "schemas", "/", "User">>
RefAlias == <<"#", "/", "components", "/", "schemas", "/", "Alias">>
RefExamples == {RefUser, RefMissing, RefExternal, RefDeepMissing, RefAlias}

RefInputs(n) == UNION {SeqsOfLen(RefPieces, k) : k \in 0..n} \cup RefExamples

ResolveRef ==
    /\ acall.op = "ref"
    /\ acall' = Call("resolveRef", acall.input, acall.arg, TRUE,
                      resolveRef(acall.arg, acall.input), NoCall)
    /\ UNCHANGED <<heap, spec, last, lastOk, aop, hheap, hcall, rview, ui, parsers>>

InitResolve ==
    /\ heap = [r \in Refs |-> Unalloc]
    /\ spec = NullRef
    /\ last = NoEvent
    /\ lastOk = NullRef
    /\ aop = NoOperation
    /\ acall \in {Call("ref", data, ref, TRUE, UndefinedValue, NoCall) :
                     data \in {SchemaDocument, NullDocument, AliasDocument},
                     ref \in RefInputs(MaxRefLen)}
    /\ hheap = <<>>
    /\ hcall = NoHeapCall
    /\ ui = NoUpload
    /\ parsers = NoParsers
    /\ rview = NoRender

\* the same call once more
ResolveRefAgain ==
    /\ acall.op = "resolveRef"
    /\ acall.prevOp = "none"
    /\ acall' = Call("resolveRef", acall.input, acall.arg, TRUE,
                      resolveRef(acall.arg, acall.input), acall)
    /\ UNCHANGED <<heap, spec, last, lastOk, aop, hheap, hcall, rview, ui, parsers>>

NextResolve == ResolveRef \/ ResolveRefAgain

SpecResolve == InitResolve /\ [][NextResolve]_vars

Absent(value) == value.t \in {"undefined", "null"}

\* the segments of a ref that starts with "#/"
Segments(ref) == Split(SubSeq(ref, 3, Len(ref)))

\* every segment names a field of the value the segments before it reach
EverySegmentExists(data, segments) ==
    \A i \in 1..Len(segments) : SubSeq(segments, 1, i) \in DOMAIN data

\* C18: resolveRef(ref, data) is absent for a ref that does not start with
\* "#/"; for the others it is the value of the data at the path of the
\* ref's segments when every segment exists there, and absent when one
\* does not ("#/components/schemas/User" is the User schema,
\* "#/components/schemas/Missing" is absent).
C18_ResolveWalksDocument ==
    acall.op = "resolveRef" =>
        IF ~startsWith(acall.arg, HashSlash) THEN Absent(acall.result)
        ELSE IF /\ acall.input[<<>>] = "object"
                /\ EverySegmentExists(acall.input, Segments(acall.arg))
             THEN acall.result =
                      Value(acall.input[Segments(acall.arg)], Segments(acall.arg))
             ELSE Absent(acall.result)


(***************************************************************************)
(* SchemaViewer.  A schema is a $ref, an array whose items are a $ref, an  *)
(* object whose property is such an array, an object whose property is a   *)
(* $ref only, or a plain type.  The stack holds the schemas of the nested   *)
(* invocations; the call stack of the engine holds MaxDepth of them.       *)
(***************************************************************************)
MaxDepth == 12   \* nested SchemaViewer invocations the call stack holds

RefSchema(to) == [kind |-> "ref", to |-> to]
ArraySchema(to) == [kind |-> "array", to |-> to]
ObjectSchema(to) == [kind |-> "object", to |-> to]
ObjectOfRefSchema(to) == [kind |-> "objectOfRef", to |-> to]
TypeSchema == [kind |-> "type", to |-> ""]

SchemaNames == {"User", "Team"}
RefTargets == SchemaNames \cup {"Missing"}
Schemas ==
    {TypeSchema} \cup
    UNION {{RefSchema(to), ArraySchema(to), ObjectSchema(to), ObjectOfRefSchema(to)} :
              to \in RefTargets}

\* "#/components/schemas/<name>"
PointerTo(name) == <<"#", "/", "components", "/", "schemas", "/", name>>

\* the data of a document whose components.schemas has the schemas of doc
DataOf(doc) ==
    (<<>> :> "object")
    @@ (<<Key("components")>> :> "object")
    @@ (<<Key("components"), Key("schemas")>> :> "object")
    @@ [q \in {<<Key("components"), Key("schemas"), Key(name)>> : name \in DOMAIN doc}
           |-> "object"]

Top == rview.stack[Len(rview.stack)]

\* <SchemaViewer schema={schema} data={data} />, nested in the current one
Invoke(schema, text, pointers) ==
    IF Len(rview.stack) >= MaxDepth
    THEN rview' = [rview EXCEPT !.status = "overflow"]
    ELSE rview' = [rview EXCEPT !.stack = Append(@, schema),
                                !.chain = @ \o pointers,
                                !.shown = @ \o text]

Finish(text) ==
    rview' = [rview EXCEPT !.status = "done", !.shown = @ \o text]

\* if (schema.$ref)
FollowRef ==
    /\ rview.status = "rendering"
    /\ Top.kind = "ref"
    /\ LET resolved == resolveRef(PointerTo(Top.to), DataOf(rview.doc))
       IN  IF ~Absent(resolved)
           THEN Invoke(rview.doc[Top.to], <<>>, <<Top.to>>)
           ELSE Finish(<<"Ref nao resolvida">>)
    /\ UNCHANGED <<heap, spec, last, lastOk, aop, acall, hheap, hcall, ui, parsers>>

\* if (schema.type === 'array' && schema.items)
ArrayItems ==
    /\ rview.status = "rendering"
    /\ Top.kind = "array"
    /\ Invoke(RefSchema(Top.to), <<"array of objects">>, <<>>)
    /\ UNCHANGED <<heap, spec, last, lastOk, aop, acall, hheap, hcall, ui, parsers>>

\* if (schema.properties): a property is rendered in turn when it has
\* properties or items
Properties ==
    /\ rview.status = "rendering"
    /\ Top.kind \in {"object", "objectOfRef"}
    /\ IF Top.kind = "object"
       THEN Invoke(ArraySchema(Top.to), <<"array">>, <<>>)
       ELSE Finish(<<"object">>)
    /\ UNCHANGED <<heap, spec, last, lastOk, aop, acall, hheap, hcall, ui, parsers>>

\* schema.type || 'unknown'
PlainType ==
    /\ rview.status = "rendering"
    /\ Top.kind = "type"
    /\ Finish(<<"string">>)
    /\ UNCHANGED <<heap, spec, last, lastOk, aop, acall, hheap, hcall, ui, parsers>>

InitRender ==
    /\ heap = [r \in Refs |-> Unalloc]
    /\ spec = NullRef
    /\ last = NoEvent
    /\ lastOk = NullRef
    /\ aop = NoOperation
    /\ acall = NoCall
    /\ hheap = <<>>
    /\ hcall = NoHeapCall
    /\ ui = NoUpload
    /\ parsers = NoParsers
    /\ rview \in {[status |-> "rendering", doc |-> doc, stack |-> <<schema>>,
                    chain |-> <<>>, shown |-> <<>>] :
                      doc \in [SchemaNames -> Schemas], schema \in Schemas}

NextRender == FollowRef \/ ArrayItems \/ Properties \/ PlainType

SpecRender == InitRender /\ [][NextRender]_vars

\* C19: the rendering of a schema ends without its nested invocations
\* exhausting the call stack, for every document and every schema, those
\* referring to themselves directly, through array items or through one
\* another included: a pointer already resolved on the descent is not
\* resolved again.
C19_RenderingIsBounded ==
    /\ rview.status # "overflow"
    /\ NoDuplicates(rview.chain)


(***************************************************************************)
(* buildRouteMap.  The Map is the sequence of its entries in insertion     *)
(* order; the table gives the fields of the operation objects of the       *)
(* document, by their numbers.                                             *)
(***************************************************************************)
\* `${method}:${path}`
RouteKey(method, path) == <<method, ":", path>>

HasKey(map, key) == \E i \in 1..Len(map) : map[i].key = key

\* a known key keeps its value
MapSet_KeepFirst(map, key, value) ==
    IF HasKey(map, key) THEN map
    ELSE Append(map, [key |-> key, value |-> value])

\* routeMap.set(key, value): a known key keeps its place
MapSet(map, key, value) ==
    IF HasKey(map, key)
    THEN [i \in 1..Len(map) |->
             IF map[i].key = key THEN [key |-> key, value |-> value] ELSE map[i]]
    ELSE Append(map, [key |-> key, value |-> value])

\* the alias entries carry the canonical path
AliasLoop_CanonicalPath(map, aliases, path, method, operation) ==
    LET RECURSIVE loop(_, _)
        loop(m, i) ==
            IF i > Len(aliases) THEN m
            ELSE loop(MapSet(m, RouteKey(method, aliases[i]),
                             [path |-> path, method |-> method, operation |-> operation]),
                      i + 1)
    IN  loop(map, 1)

\* the alias entries are keyed by the canonical path
AliasLoop_CanonicalKey(map, aliases, path, method, operation) ==
    LET RECURSIVE loop(_, _)
        loop(m, i) ==
            IF i > Len(aliases) THEN m
            ELSE loop(MapSet(m, RouteKey(method, path),
                             [path |-> aliases[i], method |-> method,
                              operation |-> operation]),
                      i + 1)
    IN  loop(map, 1)

\* aliases.forEach(alias => routeMap.set(aliasKey, { path: alias, ... }))
AliasLoop(map, aliases, path, method, operation) ==
    LET RECURSIVE loop(_, _)
        loop(m, i) ==
            IF i > Len(aliases) THEN m
            ELSE loop(MapSet(m, RouteKey(method, aliases[i]),
                             [path |-> aliases[i], method |-> method,
                              operation |-> operation]),
                      i + 1)
    IN  loop(map, 1)

\* operations.forEach(({ path, method, operation }) => ...)
RECURSIVE OperationLoop(_, _, _, _)
OperationLoop(map, operations, table, i) ==
    IF i > Len(operations) THEN map
    ELSE LET o == operations[i]
             canonical == MapSet(map, RouteKey(o.method, o.path),
                                 [path |-> o.path, method |-> o.method,
                                  operation |-> o.operation])
             aliases == getAliases(table[o.operation.id])
         IN  OperationLoop(AliasLoop(canonical, aliases, o.path, o.method, o.operation),
                           operations, table, i + 1)

\* a new parser loads the document at r; the map of its operations
buildRouteMap(h, r, table) ==
    LET p == parseObject(NullRef, h, r)
    IN  IF p.err.thrown THEN [err |-> p.err, map |-> <<>>]
        ELSE LET g == getAllOperations(p.spec, h)
             IN  IF g.err.thrown THEN [err |-> g.err, map |-> <<>>]
                 ELSE [err |-> NoError, map |-> OperationLoop(<<>>, g.val, table, 1)]

RouteVerbs == {"get", "post"}
\* no alias field, aliases, an alias equal to a path, an alias twice
RouteAliasLists ==
    {None, Opt(<<"/members">>), Opt(<<"/accounts", "/members">>), Opt(<<"/users">>),
     Opt(<<"/members", "/members">>)}

ListUsers == [k \in {"summary"} |-> "List users"]
OperationWith(opt) == IF opt.has THEN Spread(ListUsers, ALIASES, opt.items) ELSE ListUsers

OpId(pair) == 10 * pair[1] + VerbIndex(pair[2])

BuildRouteMap ==
    /\ acall.op = "document"
    /\ acall' = Call("buildRouteMap", acall.input, "", TRUE,
                      buildRouteMap(heap, 1, acall.input), NoCall)
    /\ UNCHANGED <<heap, spec, last, lastOk, aop, hheap, hcall, rview, ui, parsers>>

InitRoutes ==
    /\ \E n \in 1..MaxPaths :
       \E placed \in SubsetsUpTo((1..n) \X RouteVerbs, MaxOps) :
       \E lists \in [placed -> RouteAliasLists] :
       \E openapi \in {V300, V20} :
          /\ heap = [r \in Refs |->
                        IF r = 1
                        THEN Candidate(Str(openapi), InfoFull,
                                       PathsObj(EntriesFor(n, placed, FALSE)))
                        ELSE Unalloc]
          /\ acall = Call("document",
                           [id \in {OpId(pair) : pair \in placed} |->
                               OperationWith(lists[CHOOSE pair \in placed : OpId(pair) = id])],
                           "", TRUE, [err |-> NoError, map |-> <<>>], NoCall)
    /\ spec = NullRef
    /\ last = NoEvent
    /\ lastOk = NullRef
    /\ aop = NoOperation
    /\ hheap = <<>>
    /\ hcall = NoHeapCall
    /\ ui = NoUpload
    /\ parsers = NoParsers
    /\ rview = NoRender

NextRoutes == BuildRouteMap

SpecRoutes == InitRoutes /\ [][NextRoutes]_vars

\* the entries of one operation: the canonical one, then one per alias
EntriesOf(o, table) ==
    LET aliases == getAliases(table[o.operation.id])
    IN  <<[key |-> <<o.method, ":", o.path>>,
           value |-> [path |-> o.path, method |-> o.method, operation |-> o.operation]]>>
        \o [i \in 1..Len(aliases) |->
               [key |-> <<o.method, ":", aliases[i]>>,
                value |-> [path |-> aliases[i], method |-> o.method,
                           operation |-> o.operation]]]

RECURSIVE AllEntries(_, _)
AllEntries(operations, table) ==
    IF operations = <<>> THEN <<>>
    ELSE EntriesOf(Head(operations), table) \o AllEntries(Tail(operations), table)

DistinctKeys(entries) ==
    \A i, j \in 1..Len(entries) : entries[i].key = entries[j].key => i = j

\* the operations of the document at cell 1
DocumentOperations == PathLoop(heap[1].paths.entries, 1)

\* C20: when no two keys collide, the map of buildRouteMap holds, operation
\* after operation, the entry method:path of the operation and then one
\* entry method:alias per alias in the declared order, each with the
\* operation object and the method of the operation and with the alias as
\* its path; a document with one operation and n distinct aliases other
\* than its path gives n + 1 entries.
C20_CanonicalThenAliases ==
    (acall.op = "buildRouteMap" /\ ~acall.result.err.thrown) =>
        LET expected == AllEntries(DocumentOperations, acall.input)
        IN  /\ DistinctKeys(expected) => acall.result.map = expected
            /\ (Len(DocumentOperations) = 1 /\ DistinctKeys(expected)) =>
                   Len(acall.result.map) =
                       Len(getAliases(acall.input[DocumentOperations[1].operation.id])) + 1

\* get /users with the aliases /accounts and /members: three entries
C20_Witness ==
    /\ acall.op = "buildRouteMap"
    /\ Len(DocumentOperations) = 1
    /\ DocumentOperations[1].path = "/users"
    /\ DocumentOperations[1].method = "get"
    /\ Len(acall.result.map) = 3
    /\ acall.result.map[2].key = <<"get", ":", "/accounts">>
    /\ acall.result.map[3].value.path = "/members"


\* routeMap.get(key)
MapGet(map, key) ==
    IF HasKey(map, key)
    THEN [found |-> TRUE, value |-> map[CHOOSE i \in 1..Len(map) : map[i].key = key].value]
    ELSE [found |-> FALSE, value |-> [path |-> "", method |-> "", operation |-> NoValue]]

\* the position of the last insertion under the key of insertion i
LastWith(entries, i) ==
    CHOOSE j \in 1..Len(entries) :
        /\ entries[j].key = entries[i].key
        /\ \A k \in (j + 1)..Len(entries) : entries[k].key # entries[i].key

\* C21: buildRouteMap raises nothing when insertions share a key, and its
\* map holds under every inserted key the entry inserted last, the
\* insertions being, operation after operation in getAllOperations order,
\* the canonical path and then the aliases in declared order; no other key
\* is in the map.
C21_LastInsertionWins ==
    (acall.op = "buildRouteMap" /\ ~validateSpec(heap[1]).thrown) =>
        LET inserted == AllEntries(DocumentOperations, acall.input)
        IN  /\ ~acall.result.err.thrown
            /\ \A i \in 1..Len(inserted) :
                   /\ MapGet(acall.result.map, inserted[i].key).found
                   /\ MapGet(acall.result.map, inserted[i].key).value =
                          inserted[LastWith(inserted, i)].value
            /\ \A i \in 1..Len(acall.result.map) :
                   \E j \in 1..Len(inserted) : inserted[j].key = acall.result.map[i].key
            /\ DistinctKeys(acall.result.map)

\* the alias /users of the operation at /accounts shadows get /users, and
\* the path /accounts shadows the alias /accounts of the operation at /users
C21_Witness ==
    /\ acall.op = "buildRouteMap"
    /\ DOMAIN acall.input = {OpId(<<1, "get">>), OpId(<<2, "get">>)}
    /\ getAliases(acall.input[OpId(<<1, "get">>)]) = <<"/accounts", "/members">>
    /\ getAliases(acall.input[OpId(<<2, "get">>)]) = <<"/users">>
    /\ MapGet(acall.result.map, RouteKey("get", "/users")).value.operation
           = OperationObj(OpId(<<2, "get">>))
    /\ MapGet(acall.result.map, RouteKey("get", "/accounts")).value.operation
           = OperationObj(OpId(<<2, "get">>))
    /\ Len(acall.result.map) = 3


\* the method as the documentation writes it in a key
UpperCaseOf(method) ==
    CASE method = "get" -> "GET"
      [] method = "put" -> "PUT"
      [] method = "post" -> "POST"
      [] method = "delete" -> "DELETE"
      [] method = "options" -> "OPTIONS"
      [] method = "head" -> "HEAD"
      [] method = "patch" -> "PATCH"
      [] method = "trace" -> "TRACE"

\* C22: in the map built from a document whose get operation at /users has
\* the alias /accounts, and where nothing else is inserted under that
\* method and alias, the key "GET:/accounts" is found and gives the
\* operation of /users.
C22_UpperCaseKeyFindsOperation ==
    (/\ acall.op = "buildRouteMap"
     /\ ~acall.result.err.thrown
     /\ DOMAIN acall.input = {OpId(<<1, "get">>)}
     /\ Contains(getAliases(acall.input[OpId(<<1, "get">>)]), "/accounts")) =>
        LET got == MapGet(acall.result.map, RouteKey(UpperCaseOf("get"), "/accounts"))
        IN  /\ got.found
            /\ got.value.operation = OperationObj(OpId(<<1, "get">>))


(***************************************************************************)
(* FileUploader and the YamlProvider context.  A selected file is read     *)
(* asynchronously: reads holds the readers whose onload has not run.       *)
(***************************************************************************)
MaxReads == 2   \* readers in flight at once

YamlUsers == "{openapi: 3.0.0, info: {title: API, version: '1'}, paths: {/users: {get: {}}}}"
YamlOrders == "{openapi: 3.0.0, info: {title: API, version: '1'}, paths: {/orders: {post: {}}}}"
YamlNoOpenapi == "{info: {title: API, version: '1'}}"
YamlSwagger == "{openapi: '2.0', info: {title: API, version: '1'}, paths: {/users: {get: {}}}}"
YamlBroken == "{openapi: 3.0.0"

DocOrders ==
    Candidate(Str(V300), InfoFull, PathsObj(<<[key |-> "/orders", item |-> Item(1, {"post"})]>>))
DocNoOpenapi == Candidate(Undefined, InfoFull, PathsAbsent)

\* parse(yamlContent) of the yaml package, on the texts above
yamlParse(text) ==
    CASE text = YamlUsers -> [thrown |-> FALSE, value |-> DocA]
      [] text = YamlOrders -> [thrown |-> FALSE, value |-> DocOrders]
      [] text = YamlNoOpenapi -> [thrown |-> FALSE, value |-> DocNoOpenapi]
      [] text = YamlSwagger -> [thrown |-> FALSE, value |-> DocV2]
      [] OTHER -> [thrown |-> TRUE, value |-> NullCandidate]

\* try { return parse(yamlContent) } catch (err) { throw err }
parseYaml(yamlContent) == yamlParse(yamlContent)

\* f.name.toLowerCase() ends with .yaml or .yml
isYaml(f) == f.ext \in {".yaml", ".YAML", ".yml", ".YML"}

\* parsed && parsed.paths ? Object.keys(parsed.paths) : parsed ? Object.keys(parsed) : []
EntriesOfParsed(parsed) ==
    IF parsed.t = "object" /\ parsed.paths.t = "object"
    THEN [i \in 1..Len(parsed.paths.entries) |-> parsed.paths.entries[i].key]
    ELSE IF parsed.t = "object"
    THEN (IF parsed.openapi.t # "undefined" THEN <<"openapi">> ELSE <<>>)
         \o (IF parsed.info.t # "undefined" THEN <<"info">> ELSE <<>>)
    ELSE <<>>

UploadFiles ==
    {[name |-> "users.yaml", ext |-> ".yaml", text |-> YamlUsers],
     [name |-> "orders.YML", ext |-> ".YML", text |-> YamlOrders],
     [name |-> "notes.yaml", ext |-> ".yaml", text |-> YamlNoOpenapi],
     [name |-> "old.yml", ext |-> ".yml", text |-> YamlSwagger],
     [name |-> "broken.yaml", ext |-> ".yaml", text |-> YamlBroken],
     [name |-> "users.json", ext |-> ".json", text |-> YamlUsers]}

\* handleFile(f), up to reader.readAsText(f)
HandleFile(f) ==
    /\ IF ~isYaml(f)
       THEN ui' = [ui EXCEPT !.file = "",
                             !.error = "Apenas arquivos .yaml ou .yml sao aceitos.",
                             !.event = "select", !.content = f.text,
                             !.before = ui.data, !.pathBefore = ui.selectedPath]
       ELSE /\ Len(ui.reads) < MaxReads
            /\ ui' = [ui EXCEPT !.file = f.name, !.error = "",
                                 !.reads = Append(@, f.text),
                                 !.event = "select", !.content = f.text,
                                 !.before = ui.data, !.pathBefore = ui.selectedPath]
    /\ UNCHANGED <<heap, spec, last, lastOk, aop, acall, hheap, hcall, rview, parsers>>

\* reader.onload of the reader at position i of those in flight
ReaderOnload(i) ==
    /\ i \in 1..Len(ui.reads)
    /\ LET content == ui.reads[i]
           rest == SubSeq(ui.reads, 1, i - 1) \o SubSeq(ui.reads, i + 1, Len(ui.reads))
           parsed == parseYaml(content)
           entries == EntriesOfParsed(parsed.value)
       IN  IF parsed.thrown
           THEN ui' = [ui EXCEPT !.error = "Erro ao parsear YAML. Veja console.",
                                 !.reads = rest, !.event = "read", !.content = content,
                                 !.before = ui.data, !.pathBefore = ui.selectedPath]
           ELSE ui' = [ui EXCEPT !.data = parsed.value,
                                 !.selectedPath = IF Len(entries) > 0 THEN entries[1] ELSE @,
                                 !.navigated = TRUE,
                                 !.reads = rest, !.event = "read", !.content = content,
                                 !.before = ui.data, !.pathBefore = ui.selectedPath]
    /\ UNCHANGED <<heap, spec, last, lastOk, aop, acall, hheap, hcall, rview, parsers>>

InitUpload ==
    /\ heap = [r \in Refs |-> Unalloc]
    /\ spec = NullRef
    /\ last = NoEvent
    /\ lastOk = NullRef
    /\ aop = NoOperation
    /\ acall = NoCall
    /\ hheap = <<>>
    /\ hcall = NoHeapCall
    /\ rview = NoRender
    /\ ui = NoUpload
    /\ parsers = NoParsers

NextUpload ==
    \/ \E f \in UploadFiles : HandleFile(f)
    \/ \E i \in 1..MaxReads : ReaderOnload(i)

SpecUpload == InitUpload /\ [][NextUpload]_vars

\* C23: when the text of a file has been read, the document of the context
\* is the parsed text if the text deserializes and what it gives passes
\* validateSpec; otherwise an error message is shown and the document and
\* the selected path are those from before.
C23_IntakeInstallsOnlyValid ==
    ui.event = "read" =>
        LET parsed == parseYaml(ui.content)
        IN  IF ~parsed.thrown /\ ~validateSpec(parsed.value).thrown
            THEN ui.data = parsed.value
            ELSE /\ ui.error # ""
                 /\ ui.data = ui.before
                 /\ ui.selectedPath = ui.pathBefore


\* the files whose text is a valid document
ValidFiles ==
    {f \in UploadFiles :
        isYaml(f) /\ ~parseYaml(f.text).thrown /\ ~validateSpec(parseYaml(f.text).value).thrown}

\* C30: once no read is in flight, when the file shown as selected is a
\* valid YAML file, the document of the context and the selected path are
\* those of that file, also when it was selected while the read of an
\* earlier valid file was in flight, and whichever read completed first.
C30_LastSelectedFileIsInstalled ==
    (ui.reads = <<>> /\ ui.event = "read") =>
        \A f \in ValidFiles :
            f.name = ui.file =>
                /\ ui.data = parseYaml(f.text).value
                /\ ui.selectedPath = EntriesOfParsed(parseYaml(f.text).value)[1]


\* C24: a rendering ends either on a schema that carries no $ref, of
\* itself, of its items or of its property, or on a $ref that does not
\* resolve, which it reports as not resolved: every $ref reached that
\* resolves is followed, and none is shown as a plain type.
C24_EveryRefIsResolved ==
    rview.status = "done" =>
        \/ Top.kind = "type"
        \/ /\ Top.kind = "ref"
           /\ Top.to \notin DOMAIN rview.doc
           /\ rview.shown[Len(rview.shown)] = "Ref nao resolvida"


\* C25: an object that resolveRef returns is the one at the pointer, also
\* when it is a record { $ref: other }, which is returned as found; and a
\* second call with the same ref and data returns what the first returned.
C25_OneHopAndStateless ==
    /\ [](acall.op = "resolveRef" =>
            /\ acall.result.t = "object" => acall.result.p = Segments(acall.arg)
            /\ (acall.input = AliasDocument /\ acall.arg = RefAlias) =>
                   /\ acall.result.t = "object"
                   /\ Append(acall.result.p, Key("$ref")) \in DOMAIN acall.input)
    /\ [][(acall.op = "resolveRef" /\ acall'.op = "resolveRef") =>
              acall'.result = acall.result]_vars

\* the pointer of the reference record, resolved twice
C25_Witness ==
    /\ acall.op = "resolveRef"
    /\ acall.prevOp = "resolveRef"
    /\ acall.input = AliasDocument
    /\ acall.arg = RefAlias
    /\ acall.result = Value("object", <<Key("components"), Key("schemas"), Key("Alias")>>)


\* C26: a call of addAlias or removeAlias on the previous result keeps an
\* alias list without duplicates without duplicates; after addAlias the
\* aliases are those from before and the one added, after removeAlias
\* those from before but the one removed.  So after any sequence of calls
\* an alias is in the list iff its last call was an add, or it was there
\* at the start and no call removed it.
C26_AliasesStayDistinct ==
    [][LET before == getAliases(aop)
           after == getAliases(aop')
       IN  /\ acall'.input = aop
           /\ NoDuplicates(before) => NoDuplicates(after)
           /\ acall'.op = "addAlias" => SetOf(after) = SetOf(before) \cup {acall'.arg}
           /\ acall'.op = "removeAlias" => SetOf(after) = SetOf(before) \ {acall'.arg}]_vars

\* an alias added and then removed, another one staying
C26_Witness ==
    /\ acall.op = "removeAlias"
    /\ acall.prevOp = "addAlias"
    /\ acall.prevArg = acall.arg
    /\ ~Contains(getAliases(acall.prevInput), acall.arg)
    /\ NoDuplicates(getAliases(acall.prevInput))
    /\ getAliases(acall.result) = getAliases(acall.prevInput)
    /\ Len(getAliases(acall.result)) = 1

NamesOf(tags) == [i \in 1..Len(tags) |-> tags[i].name]

\* C27: a call of addCustomTag or removeCustomTag on the previous result
\* keeps the names of the tags pairwise distinct when they were;
\* removeCustomTag(op, n) leaves the tags not named n, in their order, and
\* none named n; addCustomTag leaves every tag that was there as it was.
C27_TagNamesStayDistinct ==
    [][LET before == getCustomTags(aop)
           after == getCustomTags(aop')
           other(t) == t.name # acall'.arg
       IN  /\ acall'.input = aop
           /\ NoDuplicates(NamesOf(before)) => NoDuplicates(NamesOf(after))
           /\ acall'.op = "removeCustomTag" =>
                  /\ after = SelectSeq(before, other)
                  /\ ~SomeNamed(after, acall'.arg)
           /\ acall'.op = "addCustomTag" =>
                  /\ Len(after) >= Len(before)
                  /\ \A i \in 1..Len(before) : after[i] = before[i]]_vars

\* Admin in red removed and added again in blue, next to another tag
C27_Witness ==
    /\ acall.op = "addCustomTag"
    /\ acall.prevOp = "removeCustomTag"
    /\ acall.prevArg = "Admin"
    /\ acall.arg = [name |-> "Admin", color |-> "blue"]
    /\ getCustomTags(acall.prevInput) =
           <<[name |-> "Admin", color |-> "red"], [name |-> "Beta", color |-> "red"]>>
    /\ getCustomTags(acall.result) =
           <<[name |-> "Beta", color |-> "red"], [name |-> "Admin", color |-> "blue"]>>


\* C28: every entry of the map of buildRouteMap, also one that replaced
\* another, has as its key its method, a colon and its path, and holds an
\* operation of the document that is declared under that method and whose
\* path or one of whose aliases is the path of the entry.
C28_EntriesAgreeWithKeys ==
    acall.op = "buildRouteMap" =>
        \A i \in 1..Len(acall.result.map) :
            LET e == acall.result.map[i]
            IN  /\ e.key = <<e.value.method, ":", e.value.path>>
                /\ \E j \in 1..Len(DocumentOperations) :
                       LET o == DocumentOperations[j]
                       IN  /\ o.operation = e.value.operation
                           /\ o.method = e.value.method
                           /\ \/ o.path = e.value.path
                              \/ Contains(getAliases(acall.input[o.operation.id]),
                                          e.value.path)

\* two operations declare the alias /members: the entry is the second's
C28_Witness ==
    /\ acall.op = "buildRouteMap"
    /\ DOMAIN acall.input = {OpId(<<1, "post">>), OpId(<<2, "post">>)}
    /\ getAliases(acall.input[OpId(<<1, "post">>)]) = <<"/members">>
    /\ getAliases(acall.input[OpId(<<2, "post">>)]) = <<"/members">>
    /\ Len(acall.result.map) = 3
    /\ acall.result.map[2].key = RouteKey("post", "/members")
    /\ acall.result.map[2].value.operation = OperationObj(OpId(<<2, "post">>))


(***************************************************************************)
(* Two parsers made by createParser, on the one heap: parsers[i] is the    *)
(* spec field of parser i.                                                 *)
(***************************************************************************)
Instances == {1, 2}

\* a field shared by the instances
StoreIn_Shared(fields, i, s) == [j \in DOMAIN fields |-> s]

\* this.spec = ..., of parser i
StoreIn(fields, i, s) == [fields EXCEPT ![i] = s]

\* the call op of parser i with its outcome
CallOn(i, op, ref, text, err, ret) ==
    [on |-> i, op |-> op, ref |-> ref, text |-> text, err |-> err, ret |-> ret]

TwoCandidates == {DocA, DocB, DocV2}
TwoTexts == {TextA, TextV2, TextNull, TextTruncated}

NewObjectTwo(c) ==
    /\ Free(heap) # {}
    /\ heap' = [heap EXCEPT ![FirstFree(heap)] = c]
    /\ last' = CallOn(0, "new", FirstFree(heap), "", NoError, NullRef)
    /\ UNCHANGED <<spec, lastOk, aop, acall, hheap, hcall, rview, ui, parsers>>

ParseObjectOn(i, r) ==
    /\ r \in Allocated(heap) \cup {NullRef}
    /\ LET p == parseObject(parsers[i], heap, r)
       IN  /\ parsers' = StoreIn(parsers, i, p.spec)
           /\ last' = CallOn(i, "parseObject", r, "", p.err, p.ret)
    /\ UNCHANGED <<heap, spec, lastOk, aop, acall, hheap, hcall, rview, ui>>

ParseOn(i, text) ==
    LET j == JSONparse(text)
        needsObject == ~j.err.thrown /\ j.value.t = "object"
    IN  /\ needsObject => Free(heap) # {}
        /\ LET fresh == IF needsObject THEN FirstFree(heap) ELSE NullRef
               p == parse(parsers[i], heap, text, fresh)
           IN  /\ parsers' = StoreIn(parsers, i, p.spec)
               /\ heap' = p.heap
               /\ last' = CallOn(i, "parse", fresh, text, p.err, p.ret)
        /\ UNCHANGED <<spec, lastOk, aop, acall, hheap, hcall, rview, ui>>

InitTwo ==
    /\ heap = [r \in Refs |-> Unalloc]
    /\ spec = NullRef
    /\ last = CallOn(0, "none", NullRef, "", NoError, NullRef)
    /\ lastOk = NullRef
    /\ aop = NoOperation
    /\ acall = NoCall
    /\ hheap = <<>>
    /\ hcall = NoHeapCall
    /\ rview = NoRender
    /\ ui = NoUpload
    /\ parsers = NoParsers

NextTwo ==
    \/ \E c \in TwoCandidates : NewObjectTwo(c)
    \/ \E i \in Instances : \E r \in Refs \cup {NullRef} : ParseObjectOn(i, r)
    \/ \E i \in Instances : \E text \in TwoTexts : ParseOn(i, text)

SpecTwo == InitTwo /\ [][NextTwo]_vars

\* what getSpec and the accessors of a parser return
Returns(s, h) ==
    [getSpec |-> getSpec(s), document |-> Deref(h, s), getPaths |-> getPaths(s, h),
     getInfo |-> getInfo(s, h), getVersion |-> getVersion(s, h),
     getAllOperations |-> getAllOperations(s, h)]

\* C29: a parse or parseObject call on one parser, whether it succeeds or
\* fails, leaves what getSpec and every accessor of the other parser
\* return as it was.
C29_ParsersAreIndependent ==
    [][\A i \in Instances :
          (last'.op \in {"parse", "parseObject"} /\ last'.on # i) =>
              Returns(parsers'[i], heap') = Returns(parsers[i], heap)]_vars

\* both parsers hold a document, not the same one, and the call of
\* parser 2 has just failed
C29_Witness ==
    /\ last.op = "parse"
    /\ last.on = 2
    /\ last.err.thrown
    /\ parsers[1] # NullRef
    /\ parsers[2] # NullRef
    /\ parsers[1] # parsers[2]

=============================================================================
